---- MODULE Spec2Model ----
(***************************************************************************)
(* The rate-limited CoinGecko client of scripts/generate-daily-data.js     *)
(* (class CryptoDataGenerator): tier state, response cache, minimum        *)
(* inter-call spacing, retry with backoff and the automatic downgrade from *)
(* the PRO tier to the FREE tier, together with the caller that drives it  *)
(* (sequential awaits, and the Promise.all of fetchHistoricalTotal3).      *)
(*                                                                         *)
(* Time is in milliseconds.  One step of the model is one run-to-completion*)
(* segment of the JavaScript event loop: the code between two suspension   *)
(* points (await of a timer or of a network response).                     *)
(*                                                                         *)
(* The program reads Date.now() only in differences (now - lastRequestTime,*)
(* now - cached.timestamp) and in timers, so the state holds those         *)
(* differences: the time since the last request, the age of each cache     *)
(* entry, what is left of each sleep.  A difference stops growing at the   *)
(* largest value the program compares it with.                             *)
(***************************************************************************)
EXTENDS Integers, Sequences, FiniteSets, TLC

\* ------------------------------------------------------------------ bounds
\* Network requests issued in one run that does not reach
\* fetchHistoricalTotal3, and in one run that does.
MaxRequests == 8
MaxT3Requests == 4
\* Sequentially awaited makeAPICall invocations of the caller in one run
\* (fetchHistoricalTotal3 and its calls come on top).
MaxSeqCalls == 1
\* The time a response takes to arrive; a request without a response by then
\* stays silent until the socket timeout.
Latency == 100
\* Math.random() is RandNum / RandDen with RandNum in RandNums.
RandDen == 1000
RandNums == {0, RandDen - 1}

\* ------------------------------------------------------- program constants
PRO_URL == "https://pro-api.coingecko.com/api/v3"
FREE_URL == "https://api.coingecko.com/api/v3"
CACHE_DURATION == 300000
SOCKET_TIMEOUT == 20000
BACKOFF_CAP == 30000
PRO_MIN_DELAY == 300
FREE_MIN_DELAY == 1600
PRO_MAX_RETRIES == 3
FREE_MAX_RETRIES == 6
PRO_BACKOFF_BASE == 500
FREE_BACKOFF_BASE == 2000
THE_KEY == "CG-key"
\* fetchHistoricalTotal3(90)
DAYS == 90
NoKey == ""

Min(a, b) == IF a < b THEN a ELSE b
Max(a, b) == IF a > b THEN a ELSE b
Pow2(n) == 2 ^ n

\* ---------------------------------------------------------------- requests
\* The endpoint requests of fetchHistoricalTotal3 (the chart requests are the
\* same requests getEMACrossovers makes for bitcoin and ethereum, and /global
\* is the request of getGlobalMetrics).
CHART_QUERY == "vs_currency=usd&days=90&interval=daily"
ReqBtc == [endpoint |-> "/coins/bitcoin/market_chart", queryString |-> CHART_QUERY]
ReqEth == [endpoint |-> "/coins/ethereum/market_chart", queryString |-> CHART_QUERY]
ReqGlobal == [endpoint |-> "/global", queryString |-> ""]
Requests == {ReqBtc, ReqEth, ReqGlobal}

\* `${endpoint}|${queryString}`
cacheKey(r) == <<r.endpoint, "|", r.queryString>>
\* `${this.BASE_URL}${endpoint}${queryString ? '?' + queryString : ''}`
buildUrl(base, r) ==
  IF r.queryString # "" THEN <<base, r.endpoint, "?", r.queryString>>
  ELSE <<base, r.endpoint>>

\* --------------------------------------------------------------- transport
\* What the network does with one request: an HTTP response (status, the
\* retry-after header, whether the body parses as JSON), a socket error with
\* a code, or silence until the socket timeout.
Http(status, ra, json) ==
  [kind |-> "http", status |-> status, retryAfter |-> ra, json |-> json, code |-> ""]
NetErr(code) ==
  [kind |-> "error", status |-> 0, retryAfter |-> "", json |-> FALSE, code |-> code]
Silence ==
  [kind |-> "timeout", status |-> 0, retryAfter |-> "", json |-> FALSE, code |-> ""]
Transport ==
  { Http(200, "", TRUE), Http(200, "", FALSE), Http(401, "", FALSE),
    Http(403, "", FALSE), Http(404, "", FALSE), Http(429, "", FALSE),
    Http(429, "2", FALSE), Http(429, "soon", FALSE), Http(503, "2", FALSE),
    NetErr("ECONNRESET"), NetErr("EPIPE"), Silence }

\* Number(retryAfterHeader): -1 stands for NaN.
NaN == -1
ToNumber(s) ==
  IF s = "2" THEN 2 ELSE IF s = "0" THEN 0 ELSE IF s = "1" THEN 1
  ELSE IF s = "60" THEN 60 ELSE IF s = "-5" THEN 0 - 5 ELSE NaN

\* The settlement of makeRequest's promise: resolved with the parsed body, or
\* rejected with an error carrying statusCode / retryAfter / code (0 and ""
\* stand for an absent property).
NoError == [statusCode |-> 0, retryAfter |-> "", code |-> "", message |-> ""]
Rejected(sc, ra, code, msg) ==
  [resolved |-> FALSE,
   error |-> [statusCode |-> sc, retryAfter |-> ra, code |-> code, message |-> msg]]
Resolved == [resolved |-> TRUE, error |-> NoError]

makeRequest(raw) ==
  IF raw.kind = "timeout" THEN Rejected(0, "", "", "Request timeout")
  ELSE IF raw.kind = "error" THEN Rejected(0, "", raw.code, "socket error")
  ELSE IF raw.status = 401 \/ raw.status = 403
    THEN Rejected(raw.status, "", "", "Unauthorized - Check your API key")
  ELSE IF raw.status = 429
    THEN Rejected(429, raw.retryAfter, "", "Rate limited - Too many requests")
  ELSE IF raw.status >= 500 THEN Rejected(raw.status, "", "", "Server error")
  ELSE IF raw.status # 200 THEN Rejected(raw.status, "", "", "HTTP")
  ELSE IF raw.json THEN Resolved
  ELSE Rejected(0, "", "", "JSON parse error")

\* ----------------------------------------------------------------- backoff
\* Variant: the jitter window has no 500 ms ceiling.
randomJitter_noCeiling(ms, rnd) == ms + ((rnd * Max(100, ms \div 10)) \div RandDen)
\* ms + Math.floor(Math.random() * Math.min(500, Math.max(100, ms * 0.1)))
randomJitter(ms, rnd) ==
  ms + ((rnd * Min(500, Max(100, ms \div 10))) \div RandDen)

\* Variants: the 30 s cap is applied to the retry-after delay as well; the
\* exponential delay is not capped.
computeBackoffDelay_capped(attempt, retryAfterHeader, backoffBase, rnd) ==
  IF retryAfterHeader # "" /\ ToNumber(retryAfterHeader) # NaN
     /\ ToNumber(retryAfterHeader) > 0
  THEN Min(BACKOFF_CAP, ToNumber(retryAfterHeader) * 1000)
  ELSE Min(BACKOFF_CAP, randomJitter(backoffBase * Pow2(attempt), rnd))
computeBackoffDelay_uncapped(attempt, retryAfterHeader, backoffBase, rnd) ==
  IF retryAfterHeader # "" /\ ToNumber(retryAfterHeader) # NaN
     /\ ToNumber(retryAfterHeader) > 0
  THEN ToNumber(retryAfterHeader) * 1000
  ELSE randomJitter(backoffBase * Pow2(attempt), rnd)
\* Variant: the retry-after seconds are not converted to milliseconds.
computeBackoffDelay_seconds(attempt, retryAfterHeader, backoffBase, rnd) ==
  IF retryAfterHeader # "" /\ ToNumber(retryAfterHeader) # NaN
     /\ ToNumber(retryAfterHeader) > 0
  THEN ToNumber(retryAfterHeader)
  ELSE Min(BACKOFF_CAP, randomJitter(backoffBase * Pow2(attempt), rnd))

computeBackoffDelay(attempt, retryAfterHeader, backoffBase, rnd) ==
  IF retryAfterHeader # "" /\ ToNumber(retryAfterHeader) # NaN
     /\ ToNumber(retryAfterHeader) > 0
  THEN ToNumber(retryAfterHeader) * 1000
  ELSE Min(BACKOFF_CAP, randomJitter(backoffBase * Pow2(attempt), rnd))

\* sc === 429 || (sc && sc >= 500) || [...].includes(error.code)
TransientCodes == {"ECONNRESET", "ETIMEDOUT", "EAI_AGAIN", "ENOTFOUND"}
\* Variant: an error without a status code counts as transient too.
transient_noStatus(error) ==
  \/ error.statusCode = 429
  \/ error.statusCode >= 500
  \/ error.statusCode = 0
  \/ error.code \in TransientCodes
transient(error) ==
  \/ error.statusCode = 429
  \/ error.statusCode >= 500
  \/ error.code \in TransientCodes
isAuthFailure(error) == error.statusCode = 401 \/ error.statusCode = 403

\* A time difference d, t milliseconds later, kept up to cap.
Later(d, t, cap) == Min(cap, d + t)
\* now - lastRequestTime is compared with minDelayMs (at most FREE_MIN_DELAY).
ElapsedCap == FREE_MIN_DELAY

\* ------------------------------------------------------------------- state
VARIABLES
  isPro, API_KEY, BASE_URL, minDelayMs, maxRetries, backoffBaseMs,
  freeModeForced,   \* the tier state of the constructor / downgradeToFree
  sinceLastRequest, \* Date.now() - this.lastRequestTime
  cache,            \* this.cache: cacheKey -> [data, age = now - timestamp]
  calls,            \* the makeAPICall invocations: slot -> its locals
  caller,           \* the code awaiting them (generateDailyData's chain)
  reqCount,         \* network requests issued so far
  downgrades,       \* changes of the tier state so far
  fn                \* a helper function called on its own: arguments, result

tierVars == <<isPro, API_KEY, BASE_URL, minDelayMs, maxRetries, backoffBaseMs,
              freeModeForced>>
vars == <<isPro, API_KEY, BASE_URL, minDelayMs, maxRetries, backoffBaseMs,
          freeModeForced, sinceLastRequest, cache, calls, caller,
          reqCount, downgrades, fn>>

\* Three slots: Promise.all runs three calls; a later call reuses a slot whose
\* call has settled and been consumed.
Slots == 1 .. 3

\* One invocation of makeAPICall.  pc is its suspension point:
\*   start     called, not yet run
\*   rl_sleep  inside enforceRateLimit's await this.sleep(...)
\*   inflight  awaiting this.makeRequest(url)
\*   backoff   inside await this.sleep(delay)
\*   done      settled (outcome says how)
\* sleepLeft is what is left of the sleep, waited the time the request has
\* been out.  The last four fields are bookkeeping, not program state: the
\* requests the call has issued, the time since its last failed attempt, the
\* responses it has had so far ("" none, "R" / "RR" one / two 429 with
\* retry-after 2 and nothing else, "other"), and its last backoff delay.
\* What fetchHistoricalTotal3 has returned: nothing yet, the composite of the
\* aligned BTC, ETH and global data, the flat series or the zero series.
NoSeries == [kind |-> "none", length |-> 0]
Series(kind, length) == [kind |-> kind, length |-> length]

IdleCall ==
  [pc |-> "idle", role |-> "none", req |-> ReqGlobal, cached |-> << >>,
   attempt |-> 0, sleepLeft |-> 0, waited |-> 0, url |-> << >>, keyHdr |-> NoKey,
   outcome |-> "none", data |-> 0, error |-> NoError,
   nreq |-> 0, slept |-> 0, hist |-> "", delay |-> 0]

NewCall(role, r) == [IdleCall EXCEPT !.pc = "start", !.role = role, !.req = r]

\* No helper function is being exercised on its own.
NoCall == [op |-> "none"]

\* The fields of a new client.
NewClient ==
  /\ isPro \in BOOLEAN
  /\ API_KEY = IF isPro THEN THE_KEY ELSE NoKey
  /\ BASE_URL = IF isPro THEN PRO_URL ELSE FREE_URL
  /\ minDelayMs = IF isPro THEN PRO_MIN_DELAY ELSE FREE_MIN_DELAY
  /\ maxRetries = IF isPro THEN PRO_MAX_RETRIES ELSE FREE_MAX_RETRIES
  /\ backoffBaseMs = IF isPro THEN PRO_BACKOFF_BASE ELSE FREE_BACKOFF_BASE
  /\ freeModeForced = FALSE
  /\ sinceLastRequest = ElapsedCap
  /\ cache = << >>
  /\ calls = [p \in Slots |-> IdleCall]
  /\ caller = [pc |-> "ready", awaited |-> 0, t3idx |-> 0, t3done |-> FALSE,
               seqCalls |-> 0, series |-> NoSeries]
  /\ reqCount = 0
  /\ downgrades = 0

\* constructor(): the API key is present in the environment or not; Date.now()
\* is far beyond lastRequestTime = 0.
Init == NewClient /\ fn = NoCall

\* ---------------------------------------------------------- tier downgrade
Tier ==
  [isPro |-> isPro, API_KEY |-> API_KEY, BASE_URL |-> BASE_URL,
   minDelayMs |-> minDelayMs, maxRetries |-> maxRetries,
   backoffBaseMs |-> backoffBaseMs, freeModeForced |-> freeModeForced]

\* Variants: isPro is left set; the API key is left in place; maxRetries is
\* left at its PRO value.
downgradeToFree_staysPro(t) ==
  IF ~t.isPro THEN t
  ELSE [isPro |-> TRUE, API_KEY |-> NoKey, BASE_URL |-> FREE_URL,
        minDelayMs |-> FREE_MIN_DELAY, maxRetries |-> FREE_MAX_RETRIES,
        backoffBaseMs |-> FREE_BACKOFF_BASE, freeModeForced |-> TRUE]
downgradeToFree_keepsKey(t) ==
  IF ~t.isPro THEN t
  ELSE [isPro |-> FALSE, API_KEY |-> t.API_KEY, BASE_URL |-> FREE_URL,
        minDelayMs |-> FREE_MIN_DELAY, maxRetries |-> FREE_MAX_RETRIES,
        backoffBaseMs |-> FREE_BACKOFF_BASE, freeModeForced |-> TRUE]
downgradeToFree_keepsRetries(t) ==
  IF ~t.isPro THEN t
  ELSE [isPro |-> FALSE, API_KEY |-> NoKey, BASE_URL |-> FREE_URL,
        minDelayMs |-> FREE_MIN_DELAY, maxRetries |-> t.maxRetries,
        backoffBaseMs |-> FREE_BACKOFF_BASE, freeModeForced |-> TRUE]

\* downgradeToFree() on tier t: the tier it leaves.
downgradeToFree(t) ==
  IF ~t.isPro THEN t
  ELSE [isPro |-> FALSE, API_KEY |-> NoKey, BASE_URL |-> FREE_URL,
        minDelayMs |-> FREE_MIN_DELAY, maxRetries |-> FREE_MAX_RETRIES,
        backoffBaseMs |-> FREE_BACKOFF_BASE, freeModeForced |-> TRUE]

SetTier(t) ==
  /\ isPro' = t.isPro
  /\ API_KEY' = t.API_KEY
  /\ BASE_URL' = t.BASE_URL
  /\ minDelayMs' = t.minDelayMs
  /\ maxRetries' = t.maxRetries
  /\ backoffBaseMs' = t.backoffBaseMs
  /\ freeModeForced' = t.freeModeForced

\* ------------------------------------------------------------- makeAPICall
\* Variant: entries stored before the downgrade are not seen after it.
cacheGet_tierBound(k) ==
  IF k \in DOMAIN cache /\ ~freeModeForced THEN <<cache[k]>> ELSE << >>
\* this.cache.get(cacheKey): << >> for undefined, else <<entry>>.
cacheGet(k) == IF k \in DOMAIN cache THEN <<cache[k]>> ELSE << >>
\* Variant: the map is replaced by one holding the new entry alone.
cacheSet_clears(k, d) == [x \in {k} |-> [data |-> d, age |-> 0]]
\* this.cache.set(cacheKey, { data, timestamp: Date.now() })
cacheSet(k, d) ==
  [x \in DOMAIN cache \cup {k} |-> IF x = k THEN [data |-> d, age |-> 0] ELSE cache[x]]

\* Variant: the comparison is the wrong way round.
isFresh_inverted(cached) == cached # << >> /\ cached[1].age >= CACHE_DURATION
\* cached && Date.now() - cached.timestamp < this.CACHE_DURATION
isFresh(cached) == cached # << >> /\ cached[1].age < CACHE_DURATION

\* The body the server sends for key k: one the cache does not hold for k.
Payload(k) == IF k \in DOMAIN cache THEN 3 - cache[k].data ELSE 1

\* The request leaves: makeRequest(buildUrl()) reads BASE_URL and API_KEY as
\* they are at that moment (t is the tier in force).
Send(c, t) ==
  [c EXCEPT !.pc = "inflight", !.waited = 0, !.url = buildUrl(t.BASE_URL, c.req),
            !.keyHdr = t.API_KEY, !.nreq = c.nreq + 1, !.sleepLeft = 0,
            !.slept = 0, !.delay = 0]

\* Variant: enforceRateLimit compares with the spacing that was configured
\* when the step began, not with the one of tier t.
loopTop_staleDelay(c, att, t) ==
  IF att > t.maxRetries
    THEN [c EXCEPT !.pc = "done", !.attempt = att, !.outcome = "undefined"]
  ELSE IF sinceLastRequest < minDelayMs
    THEN [c EXCEPT !.pc = "rl_sleep", !.attempt = att,
                   !.sleepLeft = minDelayMs - sinceLastRequest]
  ELSE Send([c EXCEPT !.attempt = att], t)

\* The top of the retry loop with attempt = att under tier t: the loop
\* condition, then enforceRateLimit up to its sleep, then the request.
\* enforceRateLimit without a sleep sets lastRequestTime and the request
\* leaves in the same run-to-completion segment.
loopTop(c, att, t) ==
  IF att > t.maxRetries
    THEN [c EXCEPT !.pc = "done", !.attempt = att, !.outcome = "undefined"]
  ELSE IF sinceLastRequest < t.minDelayMs
    THEN [c EXCEPT !.pc = "rl_sleep", !.attempt = att,
                   !.sleepLeft = t.minDelayMs - sinceLastRequest]
  ELSE Send([c EXCEPT !.attempt = att], t)

\* The requests this run may still issue.
Budget == IF caller.t3done THEN MaxT3Requests ELSE MaxRequests

\* What a step that leaves call c2 in slot p does to the shared request state.
Commit(p, c2) ==
  /\ calls' = [calls EXCEPT ![p] = c2]
  /\ IF c2.pc = "inflight" /\ c2.nreq > calls[p].nreq
       THEN sinceLastRequest' = 0 /\ reqCount' = reqCount + 1
       ELSE UNCHANGED <<sinceLastRequest, reqCount>>

\* Variant: only a 401 downgrades.
shouldDowngrade_only401(error, t) == error.statusCode = 401 /\ t.isPro
\* (sc === 401 || sc === 403) && this.isPro
shouldDowngrade(error, t) == isAuthFailure(error) /\ t.isPro
\* Variant: <= for <.
shouldRetry_offByOne(error, att, t) == transient(error) /\ att <= t.maxRetries
\* transient && attempt < this.maxRetries
shouldRetry(error, att, t) == transient(error) /\ att < t.maxRetries

\* Variant: the attempt is not counted.
nextAttempt_stuck(att) == att
\* attempt++
nextAttempt(att) == att + 1

\* Variant: the stale entry is not used.
endInFailure_alwaysThrows(c, error) ==
  [c EXCEPT !.pc = "done", !.outcome = "throw", !.error = error]
\* The end of the catch block: if (cached) return cached.data; throw error.
endInFailure(c, error) ==
  IF c.cached # << >>
    THEN [c EXCEPT !.pc = "done", !.outcome = "stale", !.data = c.cached[1].data]
    ELSE [c EXCEPT !.pc = "done", !.outcome = "throw", !.error = error]

\* Run-to-completion: a call that was just made runs to its first suspension
\* before anything else happens, and a caller whose awaited promise has
\* settled continues before the next timer or response is handled.
StartPending == \E p \in Slots : calls[p].pc = "start"
Thrown(p) == calls[p].pc = "done" /\ calls[p].outcome = "throw"
AllRole == {p \in Slots : calls[p].role = "all"}
CallerPending ==
  \/ /\ caller.pc \in {"await", "t3_seq", "t3_fallback"}
     /\ calls[caller.awaited].pc = "done"
  \/ /\ caller.pc = "t3_all"
     /\ \/ \E p \in AllRole : Thrown(p)
        \/ \A p \in AllRole : calls[p].pc = "done"
  \/ \E p \in Slots : calls[p].role = "straggler" /\ calls[p].pc = "done"
Quiet == ~StartPending /\ ~CallerPending

\* makeAPICall from its entry to its first suspension: the cache check, then
\* the first pass of the loop.
makeAPICall_begin(p) ==
  /\ calls[p].pc = "start"
  /\ \A q \in Slots : calls[q].pc = "start" => p <= q
  /\ LET c == calls[p]
         cached == cacheGet(cacheKey(c.req))
     IN IF isFresh(cached)
          THEN /\ calls' = [calls EXCEPT ![p] =
                   [c EXCEPT !.pc = "done", !.cached = cached,
                             !.outcome = "hit", !.data = cached[1].data]]
               /\ UNCHANGED <<sinceLastRequest, reqCount>>
          ELSE /\ reqCount < Budget
               /\ Commit(p, loopTop([c EXCEPT !.cached = cached], 0, Tier))
  /\ UNCHANGED <<tierVars, cache, caller, downgrades>>
  /\ UNCHANGED fn

\* enforceRateLimit after its sleep: this.lastRequestTime = Date.now(), then
\* the request leaves.
enforceRateLimit_wake(p) ==
  /\ Quiet
  /\ calls[p].pc = "rl_sleep"
  /\ calls[p].sleepLeft = 0
  /\ reqCount < Budget
  /\ Commit(p, Send(calls[p], Tier))
  /\ UNCHANGED <<tierVars, cache, caller, downgrades>>
  /\ UNCHANGED fn

\* The backoff sleep is over: attempt++; continue.
backoff_wake(p) ==
  /\ Quiet
  /\ calls[p].pc = "backoff"
  /\ calls[p].sleepLeft = 0
  /\ reqCount < Budget
  /\ Commit(p, loopTop(calls[p], nextAttempt(calls[p].attempt), Tier))
  /\ UNCHANGED <<tierVars, cache, caller, downgrades>>
  /\ UNCHANGED fn

\* The call's bookkeeping of a failed attempt.
Failed(c, error) ==
  [c EXCEPT !.waited = 0, !.url = << >>, !.keyHdr = NoKey,
            !.hist = IF error.statusCode = 429 /\ error.retryAfter = "2"
                       THEN (IF c.hist = "" THEN "R"
                             ELSE IF c.hist = "R" THEN "RR" ELSE "other")
                       ELSE "other"]

\* The request of call p settles with what the transport did (raw); rnd is
\* the Math.random() draw of the backoff, if one is computed.
makeAPICall_settle(p, raw, rnd) ==
  /\ Quiet
  /\ calls[p].pc = "inflight"
  /\ calls[p].waited = (IF raw.kind = "timeout" THEN SOCKET_TIMEOUT ELSE Latency)
  /\ LET c == calls[p]
         s == makeRequest(raw)
         f == Failed(c, s.error)
     IN IF s.resolved
          THEN /\ rnd = 0
               /\ cache' = cacheSet(cacheKey(c.req), Payload(cacheKey(c.req)))
               /\ calls' = [calls EXCEPT ![p] =
                    [c EXCEPT !.pc = "done", !.outcome = "fresh", !.waited = 0,
                              !.url = << >>, !.keyHdr = NoKey,
                              !.data = Payload(cacheKey(c.req))]]
               /\ UNCHANGED <<tierVars, sinceLastRequest, reqCount, downgrades>>
        ELSE IF shouldDowngrade(s.error, Tier)
          THEN /\ rnd = 0
               /\ reqCount < Budget
               /\ SetTier(downgradeToFree(Tier))
               /\ downgrades' = IF downgradeToFree(Tier) # Tier
                                  THEN downgrades + 1 ELSE downgrades
               /\ Commit(p, loopTop(f, nextAttempt(c.attempt), downgradeToFree(Tier)))
               /\ UNCHANGED cache
        ELSE IF shouldRetry(s.error, c.attempt, Tier)
          THEN /\ reqCount < Budget
               /\ calls' = [calls EXCEPT ![p] =
                    [f EXCEPT !.pc = "backoff",
                       !.delay = computeBackoffDelay(c.attempt, s.error.retryAfter,
                                                     backoffBaseMs, rnd),
                       !.sleepLeft = computeBackoffDelay(c.attempt,
                                       s.error.retryAfter, backoffBaseMs, rnd)]]
               /\ UNCHANGED <<tierVars, cache, sinceLastRequest, reqCount, downgrades>>
        ELSE /\ rnd = 0
             /\ calls' = [calls EXCEPT ![p] = endInFailure(f, s.error)]
             /\ UNCHANGED <<tierVars, cache, sinceLastRequest, reqCount, downgrades>>
  /\ UNCHANGED caller
  /\ UNCHANGED fn

\* ------------------------------------------------------------------ caller
\* The lowest slot without a call.
FreeSlot == CHOOSE p \in Slots :
  calls[p].pc = "idle" /\ \A q \in Slots : calls[q].pc = "idle" => p <= q

\* const data = await this.makeAPICall(...): the sequential call sites
\* (getGlobalMetrics, the per-coin loops of getEMACrossovers and
\* getCorrelationAnalysis).
awaitCall(r) ==
  /\ caller.pc = "ready"
  /\ caller.seqCalls < MaxSeqCalls
  /\ \E p \in Slots : calls[p].pc = "idle"
  /\ calls' = [calls EXCEPT ![FreeSlot] = NewCall("seq", r)]
  /\ caller' = [caller EXCEPT !.pc = "await", !.awaited = FreeSlot,
                              !.seqCalls = caller.seqCalls + 1]
  /\ UNCHANGED <<tierVars, sinceLastRequest, cache, reqCount, downgrades>>
  /\ UNCHANGED fn

\* The awaited call has settled: the caller goes on (a throw is caught by the
\* per-coin try/catch, or ends the run).
awaitResume ==
  /\ caller.pc = "await"
  /\ ~StartPending
  /\ calls[caller.awaited].pc = "done"
  /\ calls' = [calls EXCEPT ![caller.awaited] = IdleCall]
  /\ caller' = [caller EXCEPT !.pc = "ready", !.awaited = 0]
  /\ UNCHANGED <<tierVars, sinceLastRequest, cache, reqCount, downgrades>>
  /\ UNCHANGED fn

\* fetchHistoricalTotal3 up to its first await: Promise.all of three calls on
\* PRO, the first of three sequential calls on FREE.
fetchHistoricalTotal3_begin ==
  /\ caller.pc = "ready"
  /\ ~caller.t3done
  /\ reqCount < MaxT3Requests
  /\ \A p \in Slots : calls[p].pc = "idle"
  /\ IF isPro
       THEN /\ calls' = [p \in Slots |->
                 NewCall("all", IF p = 1 THEN ReqBtc ELSE IF p = 2 THEN ReqEth
                                ELSE ReqGlobal)]
            /\ caller' = [caller EXCEPT !.pc = "t3_all", !.t3done = TRUE]
       ELSE /\ calls' = [calls EXCEPT ![1] = NewCall("t3seq", ReqBtc)]
            /\ caller' = [caller EXCEPT !.pc = "t3_seq", !.awaited = 1,
                                        !.t3idx = 1, !.t3done = TRUE]
  /\ UNCHANGED <<tierVars, sinceLastRequest, cache, reqCount, downgrades>>
  /\ UNCHANGED fn

\* The catch block of fetchHistoricalTotal3 starts the fallback call in slot p;
\* calls of the Promise.all that have not settled go on unobserved.
Fallback(p) ==
  /\ calls' = [q \in Slots |->
       IF q = p THEN NewCall("fallback", ReqGlobal)
       ELSE IF calls[q].role \in {"all", "t3seq"}
         THEN IF calls[q].pc = "done" THEN IdleCall
              ELSE [calls[q] EXCEPT !.role = "straggler"]
       ELSE calls[q]]
  /\ caller' = [caller EXCEPT !.pc = "t3_fallback", !.awaited = p, !.t3idx = 0]

\* fetchHistoricalTotal3 returns a series.
T3Return(series) ==
  /\ calls' = [q \in Slots |->
       IF calls[q].role \in {"all", "t3seq", "fallback"} THEN IdleCall ELSE calls[q]]
  /\ caller' = [caller EXCEPT !.pc = "ready", !.awaited = 0, !.t3idx = 0,
                              !.series = series]

\* Lines 142-155: the composite has one sample for each of the len >= 2
\* aligned days.
Composite == {Series("composite", len) : len \in {2, DAYS}}
\* Variant: the flat series whatever the snapshot call did.
fallbackSeries_alwaysFlat(c) == Series("flat", DAYS)
\* Lines 158-167: the flat series of the snapshot that call c returned, or
\* the zero series if c threw.
fallbackSeries(c) ==
  IF c.outcome = "throw" THEN Series("zeros", DAYS) ELSE Series("flat", DAYS)

\* FREE path: one of the three sequential awaits settles.
fetchHistoricalTotal3_seq ==
  /\ caller.pc = "t3_seq"
  /\ ~StartPending
  /\ calls[caller.awaited].pc = "done"
  /\ IF Thrown(caller.awaited)
       THEN Fallback(caller.awaited)
     ELSE IF caller.t3idx < 3
       THEN /\ calls' = [calls EXCEPT ![caller.awaited] =
                 NewCall("t3seq", IF caller.t3idx = 1 THEN ReqEth ELSE ReqGlobal)]
            /\ caller' = [caller EXCEPT !.t3idx = caller.t3idx + 1]
     ELSE \/ \E series \in Composite : T3Return(series)
          \/ Fallback(caller.awaited)   \* len < 2: 'Insufficient BTC/ETH history'
  /\ UNCHANGED <<tierVars, sinceLastRequest, cache, reqCount, downgrades>>
  /\ UNCHANGED fn

\* PRO path: the Promise.all rejects with the first throw, or resolves when
\* all three calls have returned.
fetchHistoricalTotal3_all ==
  /\ caller.pc = "t3_all"
  /\ ~StartPending
  /\ \/ \E p \in AllRole : Thrown(p) /\ Fallback(p)
     \/ /\ \A p \in AllRole : calls[p].pc = "done" /\ ~Thrown(p)
        /\ \/ \E series \in Composite : T3Return(series)
           \/ Fallback(1)               \* len < 2: 'Insufficient BTC/ETH history'
  /\ UNCHANGED <<tierVars, sinceLastRequest, cache, reqCount, downgrades>>
  /\ UNCHANGED fn

\* The fallback call settles: the flat series, or the zero series if it threw.
fetchHistoricalTotal3_fallback ==
  /\ caller.pc = "t3_fallback"
  /\ ~StartPending
  /\ calls[caller.awaited].pc = "done"
  /\ T3Return(fallbackSeries(calls[caller.awaited]))
  /\ UNCHANGED <<tierVars, sinceLastRequest, cache, reqCount, downgrades>>
  /\ UNCHANGED fn

\* A call nobody awaits any more settles.
stragglerSettles(p) ==
  /\ calls[p].role = "straggler"
  /\ calls[p].pc = "done"
  /\ calls' = [calls EXCEPT ![p] = IdleCall]
  /\ UNCHANGED <<tierVars, sinceLastRequest, cache, caller, reqCount, downgrades>>
  /\ UNCHANGED fn

\* -------------------------------------------------------------------- time
\* How far the clock can move: to the end of a sleep, to a response's
\* arrival, to a socket timeout, and, between calls, by the cache's
\* freshness window.
Sleeping(p) == calls[p].pc \in {"rl_sleep", "backoff"}
InFlight(p) == calls[p].pc = "inflight"
Moments ==
  {calls[p].sleepLeft : p \in {q \in Slots : Sleeping(q)}}
  \cup {Latency - calls[p].waited : p \in {q \in Slots : InFlight(q)}}
  \cup {SOCKET_TIMEOUT - calls[p].waited : p \in {q \in Slots : InFlight(q)}}
  \cup (IF caller.pc = "ready" THEN {CACHE_DURATION} ELSE {})

\* d milliseconds pass.  Timers fire when due and a socket times out when
\* due: the clock does not pass a pending deadline.
advanceTime(d) ==
  /\ Quiet
  /\ d > 0
  /\ \A p \in Slots : Sleeping(p) => d <= calls[p].sleepLeft
  /\ \A p \in Slots : InFlight(p) => d <= SOCKET_TIMEOUT - calls[p].waited
  /\ sinceLastRequest' = Later(sinceLastRequest, d, ElapsedCap)
  /\ cache' = [k \in DOMAIN cache |->
                 [cache[k] EXCEPT !.age = Later(cache[k].age, d, CACHE_DURATION)]]
  /\ calls' = [p \in Slots |->
       IF Sleeping(p)
         THEN [calls[p] EXCEPT !.sleepLeft = calls[p].sleepLeft - d,
                               !.slept = Later(calls[p].slept, d, BACKOFF_CAP)]
       ELSE IF InFlight(p)
         THEN [calls[p] EXCEPT !.waited = calls[p].waited + d]
       ELSE calls[p]]
  /\ UNCHANGED <<tierVars, caller, reqCount, downgrades>>
  /\ UNCHANGED fn

Next ==
  \/ \E p \in Slots : makeAPICall_begin(p)
  \/ \E p \in Slots : enforceRateLimit_wake(p)
  \/ \E p \in Slots : backoff_wake(p)
  \/ \E p \in Slots, raw \in Transport, rnd \in RandNums : makeAPICall_settle(p, raw, rnd)
  \/ \E r \in Requests : awaitCall(r)
  \/ awaitResume
  \/ fetchHistoricalTotal3_begin
  \/ fetchHistoricalTotal3_seq
  \/ fetchHistoricalTotal3_all
  \/ fetchHistoricalTotal3_fallback
  \/ \E p \in Slots : stragglerSettles(p)
  \/ \E d \in Moments : advanceTime(d)

Spec == Init /\ [][Next]_vars

\* ------------------------------------------- computeBackoffDelay on its own
\* The client's own state, which the helper functions leave alone.
clientVars == <<isPro, API_KEY, BASE_URL, minDelayMs, maxRetries, backoffBaseMs,
                freeModeForced, sinceLastRequest, cache, calls, caller,
                reqCount, downgrades>>

\* The retry-after headers a server may send, the failed responses that lead
\* to computeBackoffDelay, and the Math.random() draws.
RetryAfterValues == {"", "0", "1", "2", "60", "-5", "soon"}
RetriedResponses ==
  {Http(429, h, FALSE) : h \in RetryAfterValues}
  \cup {Http(503, "", FALSE), Http(503, "2", FALSE), NetErr("ECONNRESET")}
BackoffRands == RandNums \cup {RandDen \div 2}

\* A client of either tier is about to handle a failed attempt: makeAPICall's
\* catch block with its local attempt and the error of makeRequest.
InitBackoff ==
  /\ NewClient
  /\ fn \in [op : {"computeBackoffDelay"}, pc : {"call"},
              attempt : 0 .. FREE_MAX_RETRIES, raw : RetriedResponses,
              rnd : BackoffRands]
  /\ shouldRetry(makeRequest(fn.raw).error, fn.attempt, Tier)

\* const delay = this.computeBackoffDelay(attempt, error && error.retryAfter),
\* with the intermediate values of its lines 112-113.
computeBackoffDelay_call ==
  /\ fn.op = "computeBackoffDelay"
  /\ fn.pc = "call"
  /\ LET error == makeRequest(fn.raw).error
         base == backoffBaseMs * Pow2(fn.attempt)
     IN fn' = [op |-> "computeBackoffDelay", pc |-> "return",
               attempt |-> fn.attempt, raw |-> fn.raw, rnd |-> fn.rnd,
               retryAfter |-> error.retryAfter,
               base |-> base,
               jittered |-> randomJitter(base, fn.rnd),
               delay |-> computeBackoffDelay(fn.attempt, error.retryAfter,
                                             backoffBaseMs, fn.rnd)]
  /\ UNCHANGED clientVars

NextBackoff == computeBackoffDelay_call

SpecBackoff == InitBackoff /\ [][NextBackoff]_vars

\* -------------------------------------------------- calculateEMA on its own
\* Periods up to MaxPeriod, price series of up to MaxLen prices.
MaxPeriod == 3
MaxLen == 4
PriceValues == {1, 2, 5}
PriceSeqs == UNION {[1 .. n -> PriceValues] : n \in 0 .. MaxLen}

\* An array entry: null, or a number kept as the exact fraction n / d, d > 0
\* (the rounding of the floating-point operations is left out).
Null == [null |-> TRUE, n |-> 0, d |-> 1]
Num(n, d) == [null |-> FALSE, n |-> n, d |-> d]

\* reduce((a, b) => a + b, 0)
RECURSIVE Sum(_)
Sum(s) == IF s = << >> THEN 0 ELSE Head(s) + Sum(Tail(s))
\* prices.slice(0, end): the first end elements, or all if there are fewer.
slice(s, end) == SubSeq(s, 1, Min(end, Len(s)))

\* (prices[i] * k) + (ema[ema.length - 1] * (1 - k)) with k = 2 / (period + 1)
emaNext(price, last, period) ==
  Num(2 * price * last.d + last.n * (period - 1), last.d * (period + 1))

\* for (let i = period; i < prices.length; i++) ema.push(...); i counts from 0.
RECURSIVE emaLoop(_, _, _, _)
emaLoop(ema, prices, period, i) ==
  IF i < Len(prices)
    THEN emaLoop(Append(ema, emaNext(prices[i + 1], ema[Len(ema)], period)),
                 prices, period, i + 1)
    ELSE ema

\* Variant: the series is seeded with the sum of all prices over period.
calculateEMA_seedAll(prices, period) ==
  emaLoop(Append([i \in 1 .. period - 1 |-> Null], Num(Sum(prices), period)),
          prices, period, period)
calculateEMA(prices, period) ==
  LET sma == Num(Sum(slice(prices, period)), period)
      ema == [i \in 1 .. period - 1 |-> Null]
  IN emaLoop(Append(ema, sma), prices, period, period)

InitEMA ==
  /\ NewClient
  /\ fn \in [op : {"calculateEMA"}, pc : {"call"}, prices : PriceSeqs,
              period : 1 .. MaxPeriod]

calculateEMA_call ==
  /\ fn.op = "calculateEMA"
  /\ fn.pc = "call"
  /\ fn' = [op |-> "calculateEMA", pc |-> "return", prices |-> fn.prices,
            period |-> fn.period, ema |-> calculateEMA(fn.prices, fn.period)]
  /\ UNCHANGED clientVars

NextEMA == calculateEMA_call

SpecEMA == InitEMA /\ [][NextEMA]_vars

\* ------------------------------------ the crossover scan of getEMACrossovers
\* The loop reads ema21 and ema55 at the indices firstValidIdx .. lastIdx
\* only (none of them null there: the series has at least 56 prices); the
\* arrays are given on those indices, for up to MaxBars bars after
\* firstValidIdx.
MaxBars == 5
firstValidIdx == 54
lookbackBars == 3
NoIdx == 0 - 1
NoDays == 0 - 1
EmaValues == {Num(v, 1) : v \in {1, 2, 3}}

\* The sign of a - b for two numbers.
diff(a, b) == a.n * b.d - b.n * a.d

\* Variant: a difference of exactly zero counts as the opposite sign.
scanStep_nonStrict(f) ==
  LET j == f.j
      prevDiff == diff(f.ema21[j - 1], f.ema55[j - 1])
      currDiff == diff(f.ema21[j], f.ema55[j])
  IN IF f.ema21[j].null \/ f.ema55[j].null
        \/ f.ema21[j - 1].null \/ f.ema55[j - 1].null
       THEN [f EXCEPT !.j = j + 1]
     ELSE IF prevDiff <= 0 /\ currDiff > 0
       THEN [f EXCEPT !.j = j + 1, !.lastCrossoverIdx = j,
                      !.lastCrossoverType = "bullish"]
     ELSE IF prevDiff >= 0 /\ currDiff < 0
       THEN [f EXCEPT !.j = j + 1, !.lastCrossoverIdx = j,
                      !.lastCrossoverType = "bearish"]
     ELSE [f EXCEPT !.j = j + 1]
\* Variant: a flip is recorded only while none has been recorded.
scanStep_keepsFirst(f) ==
  LET j == f.j
      prevDiff == diff(f.ema21[j - 1], f.ema55[j - 1])
      currDiff == diff(f.ema21[j], f.ema55[j])
  IN IF f.ema21[j].null \/ f.ema55[j].null
        \/ f.ema21[j - 1].null \/ f.ema55[j - 1].null
       THEN [f EXCEPT !.j = j + 1]
     ELSE IF prevDiff < 0 /\ currDiff > 0 /\ f.lastCrossoverIdx = NoIdx
       THEN [f EXCEPT !.j = j + 1, !.lastCrossoverIdx = j,
                      !.lastCrossoverType = "bullish"]
     ELSE IF prevDiff > 0 /\ currDiff < 0 /\ f.lastCrossoverIdx = NoIdx
       THEN [f EXCEPT !.j = j + 1, !.lastCrossoverIdx = j,
                      !.lastCrossoverType = "bearish"]
     ELSE [f EXCEPT !.j = j + 1]
\* One pass of the loop of lines 242-248.
scanStep(f) ==
  LET j == f.j
      prevDiff == diff(f.ema21[j - 1], f.ema55[j - 1])
      currDiff == diff(f.ema21[j], f.ema55[j])
  IN IF f.ema21[j].null \/ f.ema55[j].null
        \/ f.ema21[j - 1].null \/ f.ema55[j - 1].null
       THEN [f EXCEPT !.j = j + 1]
     ELSE IF prevDiff < 0 /\ currDiff > 0
       THEN [f EXCEPT !.j = j + 1, !.lastCrossoverIdx = j,
                      !.lastCrossoverType = "bullish"]
     ELSE IF prevDiff > 0 /\ currDiff < 0
       THEN [f EXCEPT !.j = j + 1, !.lastCrossoverIdx = j,
                      !.lastCrossoverType = "bearish"]
     ELSE [f EXCEPT !.j = j + 1]

\* Lines 237-241: lastIdx > firstValidIdx, nothing found yet.
InitCrossover ==
  /\ NewClient
  /\ \E lastIdx \in firstValidIdx + 1 .. firstValidIdx + MaxBars :
       fn \in [op : {"getEMACrossovers"}, pc : {"scan"},
               ema21 : [firstValidIdx .. lastIdx -> EmaValues],
               ema55 : {[j \in firstValidIdx .. lastIdx |-> Num(2, 1)]},
               lastIdx : {lastIdx}, j : {firstValidIdx + 1},
               lastCrossoverIdx : {NoIdx}, lastCrossoverType : {"none"},
               signal : {"none"}, daysAgo : {NoDays}]

crossoverScan ==
  /\ fn.op = "getEMACrossovers"
  /\ fn.pc = "scan"
  /\ fn.j <= fn.lastIdx
  /\ fn' = scanStep(fn)
  /\ UNCHANGED clientVars

\* Variant: the flip is reported however old it is.
reportStep_noWindow(f) ==
  IF f.lastCrossoverIdx # NoIdx
    THEN [f EXCEPT !.pc = "done", !.signal = f.lastCrossoverType,
                   !.daysAgo = f.lastIdx - f.lastCrossoverIdx]
    ELSE [f EXCEPT !.pc = "done"]
\* Lines 249-257: the flip is reported if it is at most lookbackBars old.
reportStep(f) ==
  IF f.lastCrossoverIdx # NoIdx /\ f.lastIdx - f.lastCrossoverIdx <= lookbackBars
    THEN [f EXCEPT !.pc = "done", !.signal = f.lastCrossoverType,
                   !.daysAgo = f.lastIdx - f.lastCrossoverIdx]
    ELSE [f EXCEPT !.pc = "done"]

\* Lines 242-257 in one go: the loop, then the report.
RECURSIVE crossoverRun(_)
crossoverRun(f) ==
  IF f.j <= f.lastIdx THEN crossoverRun(scanStep(f)) ELSE reportStep(f)

crossoverReport ==
  /\ fn.op = "getEMACrossovers"
  /\ fn.pc = "scan"
  /\ fn.j > fn.lastIdx
  /\ fn' = reportStep(fn)
  /\ UNCHANGED clientVars

NextCrossover == crossoverScan \/ crossoverReport

SpecCrossover == InitCrossover /\ [][NextCrossover]_vars

\* --------------------------- the per-coin loops of the two analytics methods
\* getEMACrossovers and getCorrelationAnalysis walk the coins one by one, each
\* coin in a try block of its own.  A coin is given by what the loop reads of
\* it: its id, what makeAPICall does for it, the number of price samples in
\* its history and its market cap.  fetch is "throws" (makeAPICall rejects),
\* "noPrices" (a history without prices), "badEntry" (prices holds an entry
\* that is not a pair, so p[1] raises a TypeError) or "prices".
MaxCoins == 2
EmaLens == {54, 55, 56}
CorrLens == {1, 2, 3}
Total3Lens == {2, DAYS}
CoinIds == {"", "bitcoin", "ethereum", "solana"}

CoinKinds(lens) ==
  LET most == CHOOSE l \in lens : \A m \in lens : m <= l
  IN [id : CoinIds, fetch : {"prices"}, len : {most}, marketCap : {1}]
     \cup [id : {"solana"}, fetch : {"throws", "noPrices", "badEntry"},
           len : {most}, marketCap : {1}]
     \cup [id : {"solana"}, fetch : {"prices"}, len : lens,
           marketCap : {1, 2}]

RECURSIVE SeqsUpTo(_, _)
SeqsUpTo(S, n) ==
  IF n = 0 THEN {<< >>}
  ELSE LET shorter == SeqsUpTo(S, n - 1)
       IN shorter \cup {Append(s, x) : s \in {t \in shorter : Len(t) = n - 1},
                                       x \in S}

\* Line 184 and line 229: the coins the loop passes over before any fetch.
passedOver(op, coin) ==
  IF op = "getCorrelationAnalysis"
    THEN coin.id \in {"", "bitcoin", "ethereum"}
    ELSE coin.id = ""

\* Lines 233-269: what the body of getEMACrossovers does with a history.
emaBody(coin) ==
  IF coin.fetch = "noPrices" \/ coin.len < 55 THEN "continue"
  ELSE IF coin.fetch = "badEntry" THEN "throw"
  ELSE LET lastIdx == coin.len - 1
       IN IF lastIdx <= firstValidIdx THEN "continue" ELSE "push"

\* Lines 188-215: what the body of getCorrelationAnalysis does with a history;
\* total3Returns has one entry less than total3Prices.
corrBody(coin, total3Len) ==
  IF coin.fetch = "noPrices" \/ coin.len < 2 THEN "continue"
  ELSE IF coin.fetch = "badEntry" THEN "throw"
  ELSE LET returnsLen == coin.len - 1
           minLen == Min(returnsLen, total3Len - 1)
       IN IF minLen < 2 THEN "continue" ELSE "push"

body(f) ==
  IF f.op = "getCorrelationAnalysis"
    THEN corrBody(f.coins[f.i], f.total3Len)
    ELSE emaBody(f.coins[f.i])

\* Variant: the catch block passes the error on.
afterCatch_rethrows(f) == [f EXCEPT !.pc = "done", !.outcome = "rejected"]
\* Lines 217-219 and 271-273: the error is logged and the loop goes on.
afterCatch(f) == [f EXCEPT !.pc = "coin", !.i = f.i + 1]

\* Line 221: results.sort((a, b) => b.marketCap - a.marketCap), a stable sort.
RECURSIVE sortByMarketCap(_, _)
sortByMarketCap(results, coins) ==
  IF results = << >> THEN << >>
  ELSE LET top == CHOOSE k \in 1 .. Len(results) :
                    /\ \A m \in 1 .. Len(results) :
                         coins[results[m]].marketCap
                           <= coins[results[k]].marketCap
                    /\ \A m \in 1 .. k - 1 :
                         coins[results[m]].marketCap
                           < coins[results[k]].marketCap
           rest == [m \in 1 .. Len(results) - 1 |->
                      IF m < top THEN results[m] ELSE results[m + 1]]
       IN <<results[top]>> \o sortByMarketCap(rest, coins)

InitLoops ==
  /\ NewClient
  /\ \/ fn \in [op : {"getEMACrossovers"}, pc : {"coin"},
                coins : SeqsUpTo(CoinKinds(EmaLens), MaxCoins) \ {<< >>},
                total3Len : {0}, i : {1}, results : {<< >>},
                outcome : {"pending"}]
     \/ fn \in [op : {"getCorrelationAnalysis"}, pc : {"coin"},
                coins : SeqsUpTo(CoinKinds(CorrLens), MaxCoins) \ {<< >>},
                total3Len : Total3Lens, i : {1}, results : {<< >>},
                outcome : {"pending"}]

InLoop == fn.op \in {"getEMACrossovers", "getCorrelationAnalysis"}

\* Lines 183-187 and 228-232: the id is looked at and the history asked for.
coin_begin ==
  /\ InLoop /\ fn.pc = "coin" /\ fn.i <= Len(fn.coins)
  /\ fn' = IF passedOver(fn.op, fn.coins[fn.i])
             THEN [fn EXCEPT !.i = fn.i + 1]
             ELSE [fn EXCEPT !.pc = "fetching"]
  /\ UNCHANGED clientVars

\* makeAPICall has rejected: the catch block of this coin runs.
coin_fetchFailed ==
  /\ InLoop /\ fn.pc = "fetching" /\ fn.coins[fn.i].fetch = "throws"
  /\ fn' = afterCatch(fn)
  /\ UNCHANGED clientVars

\* makeAPICall has resolved: the body runs up to its sleep, or to its
\* continue, or into the catch block.
coin_fetched ==
  /\ InLoop /\ fn.pc = "fetching" /\ fn.coins[fn.i].fetch # "throws"
  /\ fn' = CASE body(fn) = "push" ->
                  [fn EXCEPT !.pc = "sleep",
                             !.results = Append(fn.results, fn.i)]
             [] body(fn) = "continue" ->
                  [fn EXCEPT !.pc = "coin", !.i = fn.i + 1]
             [] body(fn) = "throw" -> afterCatch(fn)
  /\ UNCHANGED clientVars

\* Lines 216 and 270: the pause after an entry.
coin_slept ==
  /\ InLoop /\ fn.pc = "sleep"
  /\ fn' = [fn EXCEPT !.pc = "coin", !.i = fn.i + 1]
  /\ UNCHANGED clientVars

\* Lines 221 and 275-278: the loop is over and the method resolves.
loop_return ==
  /\ InLoop /\ fn.pc = "coin" /\ fn.i > Len(fn.coins)
  /\ fn' = [fn EXCEPT !.pc = "done", !.outcome = "resolved",
                      !.results = IF fn.op = "getCorrelationAnalysis"
                                    THEN sortByMarketCap(fn.results, fn.coins)
                                    ELSE fn.results]
  /\ UNCHANGED clientVars

NextLoops ==
  coin_begin \/ coin_fetchFailed \/ coin_fetched \/ coin_slept \/ loop_return

SpecLoops == InitLoops /\ [][NextLoops]_vars

\* --------------------------------- the two statistics functions on their own
\* The sums, means and quotients of calculateCorrelationAndBeta and
\* calculateDownsideBeta are floating-point operations: each result is
\* rounded to the nearest representable number, ties to even.  A number is
\* m * 2^e with m = 0, or m an integer of exactly MantissaBits bits and either
\* sign (53 bits in the program, fewer here; the exponent is not limited, so
\* nothing overflows or underflows).  NotFinite stands for NaN and Infinity.
MantissaBits == 4
MaxSamples == 3
Float(m, e) == [m |-> m, e |-> e]
Zero == Float(0, 0)
NotFinite == [m |-> 0, e |-> 1]
Abs(n) == IF n < 0 THEN 0 - n ELSE n
Sign(n) == IF n < 0 THEN 0 - 1 ELSE 1
RECURSIVE bitLength(_)
bitLength(n) == IF n = 0 THEN 0 ELSE 1 + bitLength(n \div 2)

\* The number nearest to N * 2^E, N any integer.
roundTo(N, E) ==
  IF N = 0 THEN Zero
  ELSE LET a == Abs(N)
           drop == bitLength(a) - MantissaBits
       IN IF drop <= 0
            THEN Float(Sign(N) * a * Pow2(0 - drop), E + drop)
            ELSE LET q == a \div Pow2(drop)
                     r == a % Pow2(drop)
                     half == Pow2(drop - 1)
                     m == IF r > half \/ (r = half /\ q % 2 = 1)
                            THEN q + 1 ELSE q
                 IN IF m = Pow2(MantissaBits)
                      THEN Float(Sign(N) * Pow2(MantissaBits - 1),
                                 E + drop + 1)
                      ELSE Float(Sign(N) * m, E + drop)

\* a + b
fadd(a, b) ==
  IF a = NotFinite \/ b = NotFinite THEN NotFinite
  ELSE IF a.m = 0 THEN b
  ELSE IF b.m = 0 THEN a
  ELSE IF a.e - b.e > MantissaBits + 2 THEN a
  ELSE IF b.e - a.e > MantissaBits + 2 THEN b
  ELSE LET lo == Min(a.e, b.e)
       IN roundTo(a.m * Pow2(a.e - lo) + b.m * Pow2(b.e - lo), lo)
\* a - b
fsub(a, b) == fadd(a, IF b = NotFinite THEN b ELSE Float(0 - b.m, b.e))
\* a * b
fmul(a, b) ==
  IF a = NotFinite \/ b = NotFinite THEN NotFinite
  ELSE roundTo(a.m * b.m, a.e + b.e)
\* a / b; x / 0 is Infinity or NaN.
fdiv(a, b) ==
  IF a = NotFinite \/ b = NotFinite \/ b.m = 0 THEN NotFinite
  ELSE IF a.m = 0 THEN Zero
  ELSE LET num == Abs(a.m) * Pow2(MantissaBits + 2)
           q == num \div Abs(b.m)
           sticky == IF num % Abs(b.m) = 0 THEN 0 ELSE 1
       IN roundTo(Sign(a.m) * Sign(b.m) * (2 * q + sticky),
                  a.e - b.e - MantissaBits - 3)
\* Math.sqrt(a) for a >= 0
fsqrt(a) ==
  IF a = NotFinite \/ a.m < 0 THEN NotFinite
  ELSE IF a.m = 0 THEN Zero
  ELSE LET k == IF (a.e - MantissaBits - 3) % 2 = 0
                  THEN MantissaBits + 3 ELSE MantissaBits + 4
           N == a.m * Pow2(k)
           r == CHOOSE x \in 0 .. Pow2(MantissaBits + 2) :
                  x * x <= N /\ N < (x + 1) * (x + 1)
           sticky == IF r * r = N THEN 0 ELSE 1
       IN roundTo(2 * r + sticky, ((a.e - k) \div 2) - 1)

\* let acc = start; for (...) acc += s[i]
RECURSIVE fsumFrom(_, _)
fsumFrom(acc, s) ==
  IF s = << >> THEN acc ELSE fsumFrom(fadd(acc, Head(s)), Tail(s))

\* Variant: the product of the variances is not rooted.
calculateCorrelationAndBeta_noRoot(prices1, prices2) ==
  IF Len(prices1) # Len(prices2) \/ Len(prices1) < 2
    THEN [correlation |-> Zero, beta |-> Zero]
    ELSE LET n == Len(prices1)
             mean1 == fdiv(fsumFrom(Zero, prices1), roundTo(n, 0))
             mean2 == fdiv(fsumFrom(Zero, prices2), roundTo(n, 0))
             d1 == [i \in 1 .. n |-> fsub(prices1[i], mean1)]
             d2 == [i \in 1 .. n |-> fsub(prices2[i], mean2)]
             cov == fsumFrom(Zero, [i \in 1 .. n |-> fmul(d1[i], d2[i])])
             var1 == fsumFrom(Zero, [i \in 1 .. n |-> fmul(d1[i], d1[i])])
             var2 == fsumFrom(Zero, [i \in 1 .. n |-> fmul(d2[i], d2[i])])
         IN IF var1 = Zero \/ var2 = Zero
              THEN [correlation |-> Zero, beta |-> Zero]
              ELSE [correlation |-> fdiv(cov, fmul(var1, var2)),
                    beta |-> fdiv(cov, var2)]

\* Lines 52-75.
calculateCorrelationAndBeta(prices1, prices2) ==
  IF Len(prices1) # Len(prices2) \/ Len(prices1) < 2
    THEN [correlation |-> Zero, beta |-> Zero]
    ELSE LET n == Len(prices1)
             mean1 == fdiv(fsumFrom(Zero, prices1), roundTo(n, 0))
             mean2 == fdiv(fsumFrom(Zero, prices2), roundTo(n, 0))
             d1 == [i \in 1 .. n |-> fsub(prices1[i], mean1)]
             d2 == [i \in 1 .. n |-> fsub(prices2[i], mean2)]
             cov == fsumFrom(Zero, [i \in 1 .. n |-> fmul(d1[i], d2[i])])
             var1 == fsumFrom(Zero, [i \in 1 .. n |-> fmul(d1[i], d1[i])])
             var2 == fsumFrom(Zero, [i \in 1 .. n |-> fmul(d2[i], d2[i])])
         IN IF var1 = Zero \/ var2 = Zero
              THEN [correlation |-> Zero, beta |-> Zero]
              ELSE [correlation |-> fdiv(cov, fsqrt(fmul(var1, var2))),
                    beta |-> fdiv(cov, var2)]

\* The loop of lines 80-85 from index i on; sums is <<sumProduct,
\* sumSquaredMarket>>.
RECURSIVE downsideLoop(_, _, _, _)
downsideLoop(sums, returns, marketReturns, i) ==
  IF i > Len(marketReturns) THEN sums
  ELSE downsideLoop(
         IF marketReturns[i].m < 0
           THEN <<fadd(sums[1], fmul(returns[i], marketReturns[i])),
                  fadd(sums[2], fmul(marketReturns[i], marketReturns[i]))>>
           ELSE sums,
         returns, marketReturns, i + 1)

\* Variant: every sample counts, whatever the sign of the market return.
calculateDownsideBeta_allSamples(returns, marketReturns) ==
  LET n == Len(marketReturns)
      sumProduct ==
        fsumFrom(Zero, [i \in 1 .. n |-> fmul(returns[i], marketReturns[i])])
      sumSquaredMarket ==
        fsumFrom(Zero,
                 [i \in 1 .. n |-> fmul(marketReturns[i], marketReturns[i])])
  IN IF sumSquaredMarket = Zero THEN Zero
     ELSE fdiv(sumProduct, sumSquaredMarket)

\* Lines 77-87.
calculateDownsideBeta(returns, marketReturns) ==
  LET sums == downsideLoop(<<Zero, Zero>>, returns, marketReturns, 1)
      sumProduct == sums[1]
      sumSquaredMarket == sums[2]
  IN IF sumSquaredMarket = Zero THEN Zero
     ELSE fdiv(sumProduct, sumSquaredMarket)

\* Daily returns of about -10 %, 0 and +11 %.
ReturnValues == {roundTo(0 - 13, 0 - 7), Zero, roundTo(14, 0 - 7)}
ReturnSeqs == SeqsUpTo(ReturnValues, MaxSamples)

\* calculateCorrelationAndBeta is given any two series; calculateDownsideBeta
\* is given two series of one length, as its only caller does (lines 201-203).
InitStats ==
  /\ NewClient
  /\ \/ fn \in [op : {"calculateCorrelationAndBeta"}, pc : {"call"},
                prices1 : ReturnSeqs, prices2 : ReturnSeqs]
     \/ /\ fn \in [op : {"calculateDownsideBeta"}, pc : {"call"},
                   returns : ReturnSeqs, marketReturns : ReturnSeqs]
        /\ Len(fn.returns) = Len(fn.marketReturns)

calculateCorrelationAndBeta_call ==
  /\ fn.op = "calculateCorrelationAndBeta"
  /\ fn.pc = "call"
  /\ fn' = [op |-> fn.op, pc |-> "return", prices1 |-> fn.prices1,
            prices2 |-> fn.prices2,
            result |-> calculateCorrelationAndBeta(fn.prices1, fn.prices2)]
  /\ UNCHANGED clientVars

calculateDownsideBeta_call ==
  /\ fn.op = "calculateDownsideBeta"
  /\ fn.pc = "call"
  /\ fn' = [op |-> fn.op, pc |-> "return", returns |-> fn.returns,
            marketReturns |-> fn.marketReturns,
            result |-> calculateDownsideBeta(fn.returns, fn.marketReturns)]
  /\ UNCHANGED clientVars

NextStats == calculateCorrelationAndBeta_call \/ calculateDownsideBeta_call

SpecStats == InitStats /\ [][NextStats]_vars

\* ---------------------- the statistics of one coin in getCorrelationAnalysis
\* Lines 196-215 for one coin, given its return series and the reference
\* return series.
\* Variant: the first n entries.
sliceLast_head(s, n) == SubSeq(s, 1, Min(n, Len(s)))
\* s.slice(-n): the last n entries, all of them if there are fewer, and all
\* of them for n = 0 (-0 is 0).
sliceLast(s, n) ==
  IF n = 0 THEN s ELSE SubSeq(s, Max(Len(s) - n, 0) + 1, Len(s))

InitAlign ==
  /\ NewClient
  /\ fn \in [op : {"getCorrelationAnalysis.coin"}, pc : {"returns"},
             returns : ReturnSeqs, total3Returns : ReturnSeqs]

\* Lines 196-197: minLen, and the coin is left out if it is below 2.
coin_minLen ==
  /\ fn.op = "getCorrelationAnalysis.coin"
  /\ fn.pc = "returns"
  /\ LET minLen == Min(Len(fn.returns), Len(fn.total3Returns))
     IN fn' = [op |-> fn.op,
               pc |-> IF minLen < 2 THEN "continue" ELSE "minLen",
               returns |-> fn.returns, total3Returns |-> fn.total3Returns,
               minLen |-> minLen]
  /\ UNCHANGED clientVars

\* Lines 198-215: both functions are given the two cut series, and the entry
\* is pushed.
coin_statistics ==
  /\ fn.op = "getCorrelationAnalysis.coin"
  /\ fn.pc = "minLen"
  /\ LET a == sliceLast(fn.returns, fn.minLen)
         b == sliceLast(fn.total3Returns, fn.minLen)
         cb == calculateCorrelationAndBeta(a, b)
     IN fn' = [op |-> fn.op, pc |-> "pushed",
               returns |-> fn.returns, total3Returns |-> fn.total3Returns,
               minLen |-> fn.minLen, asset |-> a, reference |-> b,
               correlation |-> cb.correlation, beta |-> cb.beta,
               downsideBeta |-> calculateDownsideBeta(a, b)]
  /\ UNCHANGED clientVars

NextAlign == coin_minLen \/ coin_statistics

SpecAlign == InitAlign /\ [][NextAlign]_vars

\* ------------------------------------------------------- generateDailyData
\* The stages of generateDailyData, each awaited in turn inside one try
\* block.  A stage is given by what it does to generateDailyData: it returns
\* or it throws.  allCoins is the number of coins getTopPerformers has
\* gathered, files the set of files written so far.
MaxPageCoins == 2
pages == 2
Pending == [kind |-> "pending", success |-> FALSE, error |-> ""]
\* What makeAPICall gives getTopPerformers for one page: it throws, or returns
\* something that is not an array, or an array of coins.
PageData ==
  [kind : {"throw", "notArray"}, length : {0}]
  \cup [kind : {"array"}, length : 0 .. MaxPageCoins]

\* Variant: the error leaves generateDailyData.
catchAll_rethrows(f, message) ==
  [f EXCEPT !.pc = "done",
            !.result = [kind |-> "rejected", success |-> FALSE,
                        error |-> message]]
\* Lines 834-838: return { success: false, error: error.message }.
catchAll(f, message) ==
  [f EXCEPT !.pc = "done",
            !.result = [kind |-> "resolved", success |-> FALSE,
                        error |-> message]]

InitDaily ==
  /\ NewClient
  /\ fn = [op |-> "generateDailyData", pc |-> "getTopPerformers", page |-> 1,
           allCoins |-> 0, emaCrossovers |-> 0, corrFull |-> 0, files |-> {},
           result |-> Pending]

\* Lines 409-437: one page of getTopPerformers, and after the last page the
\* test for an empty list.
getTopPerformers_page ==
  /\ fn.op = "generateDailyData" /\ fn.pc = "getTopPerformers"
  /\ \E data \in PageData :
       IF data.kind = "throw"
         THEN fn' = catchAll(fn, "/coins/markets failed")
         ELSE LET allCoins == IF data.kind = "notArray" THEN fn.allCoins
                              ELSE fn.allCoins + data.length
              IN fn' = IF fn.page < pages
                         THEN [fn EXCEPT !.page = fn.page + 1,
                                         !.allCoins = allCoins]
                       ELSE IF allCoins = 0
                         THEN catchAll(fn, "No coin data available")
                       ELSE [fn EXCEPT !.pc = "getGlobalMetrics",
                                       !.allCoins = allCoins]
  /\ UNCHANGED clientVars

\* Lines 752-755: getGlobalMetrics, getBTCData, getETHData, getNarrativeData
\* return their data or rethrow what their makeAPICall threw.
FetchStages ==
  <<"getGlobalMetrics", "getBTCData", "getETHData", "getNarrativeData",
    "getEMACrossovers">>
fetchStage(k) ==
  /\ fn.op = "generateDailyData" /\ fn.pc = FetchStages[k]
  /\ \E throws \in BOOLEAN :
       fn' = IF throws THEN catchAll(fn, FetchStages[k] \o " failed")
             ELSE [fn EXCEPT !.pc = FetchStages[k + 1]]
  /\ UNCHANGED clientVars

\* Line 757: getEMACrossovers resolves, with an entry for some of the coins.
getEMACrossovers_stage ==
  /\ fn.op = "generateDailyData" /\ fn.pc = "getEMACrossovers"
  /\ \E entries \in 0 .. fn.allCoins :
       fn' = [fn EXCEPT !.pc = "getCorrelationAnalysis",
                        !.emaCrossovers = entries]
  /\ UNCHANGED clientVars

\* Lines 758-760: getCorrelationAnalysis resolves, with an entry for some of
\* the coins.
getCorrelationAnalysis_stage ==
  /\ fn.op = "generateDailyData" /\ fn.pc = "getCorrelationAnalysis"
  /\ \E entries \in 0 .. fn.allCoins :
       fn' = [fn EXCEPT !.pc = "writeDated", !.corrFull = entries]
  /\ UNCHANGED clientVars

\* Lines 763-804: the data is assembled and logged and the dated file is
\* written, unless one of these throws (formatNumber of a missing number,
\* mkdirSync, writeFileSync).
writeDated ==
  /\ fn.op = "generateDailyData" /\ fn.pc = "writeDated"
  /\ \E throws \in BOOLEAN :
       fn' = IF throws THEN catchAll(fn, "dated file not written")
             ELSE [fn EXCEPT !.pc = "writeLatest",
                             !.files = fn.files \cup {"dated"}]
  /\ UNCHANGED clientVars

\* Lines 807-832: latest.json is written and { success: true } returned,
\* unless writeFileSync throws.
writeLatest ==
  /\ fn.op = "generateDailyData" /\ fn.pc = "writeLatest"
  /\ \E throws \in BOOLEAN :
       fn' = IF throws THEN catchAll(fn, "latest.json not written")
             ELSE [fn EXCEPT !.pc = "done",
                             !.files = fn.files \cup {"latest"},
                             !.result = [kind |-> "resolved",
                                         success |-> TRUE, error |-> ""]]
  /\ UNCHANGED clientVars

NextDaily ==
  \/ getTopPerformers_page
  \/ \E k \in 1 .. 4 : fetchStage(k)
  \/ getEMACrossovers_stage
  \/ getCorrelationAnalysis_stage
  \/ writeDated
  \/ writeLatest

SpecDaily == InitDaily /\ [][NextDaily]_vars

\* --------------------------------------------------------------- progress
\* Every request completes (with a response, an error or the socket timeout),
\* every timer fires and every continuation runs: no step that can be taken
\* is put off for ever.
SpecLive == Init /\ [][Next]_vars /\ WF_vars(Next)

\* -------------------------------------------------------------- sequential
\* A caller that awaits each call before it starts the next: every action of
\* the client but the Promise.all of fetchHistoricalTotal3 (taken on PRO
\* only) and the calls it leaves behind.
fetchHistoricalTotal3_beginFree == ~isPro /\ fetchHistoricalTotal3_begin

NextSequential ==
  \/ \E p \in Slots : makeAPICall_begin(p)
  \/ \E p \in Slots : enforceRateLimit_wake(p)
  \/ \E p \in Slots : backoff_wake(p)
  \/ \E p \in Slots, raw \in Transport, rnd \in RandNums : makeAPICall_settle(p, raw, rnd)
  \/ \E r \in Requests : awaitCall(r)
  \/ awaitResume
  \/ fetchHistoricalTotal3_beginFree
  \/ fetchHistoricalTotal3_seq
  \/ fetchHistoricalTotal3_fallback
  \/ \E d \in Moments : advanceTime(d)

SpecSequential == Init /\ [][NextSequential]_vars

\* ------------------- the reference returns after fetchHistoricalTotal3's catch
\* Lines 156-167 and 175-181, then lines 196-215 for one coin: the snapshot
\* call of the catch block has returned g or thrown, the series is built, the
\* reference returns are taken from it and one coin is analysed against them.
\* A field of g is absent, a JSON number or a JSON string.
Absent == [kind |-> "absent", num |-> Zero]
JsonNumber(x) == [kind |-> "number", num |-> x]
JsonText == [kind |-> "text", num |-> Zero]
\* Number(v || 0): 0 for an absent field and for 0, the number itself, and
\* NaN for a string that is not a number.
NumberOrZero(v) ==
  IF v.kind = "absent" THEN Zero
  ELSE IF v.kind = "number" THEN v.num
  ELSE NotFinite

\* total_market_cap.usd of about 1.8e12 and dominance percentages of about
\* 52 and 18, and a field that holds a string.
TotalValues == {Absent, JsonNumber(Zero), JsonNumber(roundTo(13, 37)),
                JsonText}
PercentageValues == {Absent, JsonNumber(roundTo(13, 2)), JsonNumber(roundTo(9, 1))}
Snapshots ==
  [kind : {"returns"}, usd : TotalValues, btc : PercentageValues,
   eth : PercentageValues]
  \cup [kind : {"throws"}, usd : {Absent}, btc : {Absent}, eth : {Absent}]

\* Lines 159-163: total * (1 - btcD - ethD).
flatValue(g) ==
  LET total == NumberOrZero(g.usd)
      btcD == fdiv(NumberOrZero(g.btc), roundTo(100, 0))
      ethD == fdiv(NumberOrZero(g.eth), roundTo(100, 0))
  IN fmul(total, fsub(fsub(roundTo(1, 0), btcD), ethD))

\* Lines 157-167: Array.from({ length: days }, () => t3), or zeros if the
\* snapshot call threw.
fallbackPrices(g, days) ==
  [i \in 1 .. days |-> IF g.kind = "throws" THEN Zero ELSE flatValue(g)]

\* Lines 176-181: 0 after a price of 0, else (curr - prev) / prev.
priceReturns(prices) ==
  [i \in 1 .. Len(prices) - 1 |->
     IF prices[i] = Zero THEN Zero
     ELSE fdiv(fsub(prices[i + 1], prices[i]), prices[i])]

InitReference ==
  /\ NewClient
  /\ fn \in [op : {"getCorrelationAnalysis.total3"}, pc : {"catch"},
             g : Snapshots, returns : ReturnSeqs]

\* The catch block returns its series.
fetchHistoricalTotal3_catch ==
  /\ fn.op = "getCorrelationAnalysis.total3"
  /\ fn.pc = "catch"
  /\ fn' = [op |-> fn.op, pc |-> "total3Prices", g |-> fn.g,
            returns |-> fn.returns,
            total3Prices |-> fallbackPrices(fn.g, DAYS)]
  /\ UNCHANGED clientVars

\* The reference returns are taken, and the loop comes to a coin whose
\* returns are fn.returns.
total3Returns_loop ==
  /\ fn.op = "getCorrelationAnalysis.total3"
  /\ fn.pc = "total3Prices"
  /\ fn' = [op |-> "getCorrelationAnalysis.coin", pc |-> "returns",
            returns |-> fn.returns,
            total3Returns |-> priceReturns(fn.total3Prices)]
  /\ UNCHANGED clientVars

NextReference ==
  \/ fetchHistoricalTotal3_catch
  \/ total3Returns_loop
  \/ coin_minLen
  \/ coin_statistics

SpecReference == InitReference /\ [][NextReference]_vars

\* ------------------------------------------------------------------ claims
\* Steps of one call, told by its suspension points.
Settles(p) == calls[p].pc = "inflight" /\ calls'[p].pc # "inflight"
Issues(p) == reqCount' = reqCount + 1 /\ calls'[p].pc = "inflight"
             /\ calls'[p].nreq = calls[p].nreq + 1
IsAuthStatus(raw) == raw.kind = "http" /\ raw.status \in {401, 403}

\* C1: the tier changes at most once, only from Privileged to Public and only
\* in the step in which a call that is privileged receives a 401/403; once
\* Public, no step changes any of isPro, API_KEY, BASE_URL, minDelayMs,
\* maxRetries, backoffBaseMs (nor does another downgradeToFree).
C1_TierChangesOnce ==
  [][ /\ tierVars' # tierVars =>
           /\ isPro /\ ~isPro'
           /\ downgrades = 0
           /\ \E p \in Slots, raw \in Transport :
                IsAuthStatus(raw) /\ makeAPICall_settle(p, raw, 0)
      /\ ~isPro => tierVars' = tierVars /\ downgradeToFree(Tier) = Tier
      /\ downgrades' <= 1 ]_vars

\* A 401/403 arrived after the downgrade and ended its call.
C1_Witness ==
  /\ freeModeForced /\ ~isPro /\ downgrades = 1
  /\ \E p \in Slots : Thrown(p) /\ calls[p].error.statusCode \in {401, 403}

\* C2: a call that ends in failure returns the payload of the cache entry it
\* found for its key when it started, fresh or not, if there was one, and
\* throws the error of its last attempt if there was none.
C2_FailureFallsBackToCache ==
  [][ \A p \in Slots :
        (Settles(p) /\ calls'[p].pc = "done" /\ calls'[p].outcome # "fresh") =>
          IF calls[p].cached # << >>
            THEN /\ calls'[p].outcome = "stale"
                 /\ calls'[p].data = calls[p].cached[1].data
            ELSE /\ calls'[p].outcome = "throw"
                 /\ \E raw \in Transport, rnd \in RandNums :
                      /\ makeAPICall_settle(p, raw, rnd)
                      /\ calls'[p].error = makeRequest(raw).error
                      /\ ~makeRequest(raw).resolved ]_vars

\* A failed call has returned the entry it held, which was no longer fresh.
C2_Witness ==
  \E p \in Slots :
    /\ calls[p].pc = "done" /\ calls[p].outcome = "stale"
    /\ calls[p].cached[1].age >= CACHE_DURATION
    /\ calls[p].nreq >= 1

\* C3: a call without a cache entry whose first two requests are answered 429
\* with retry-after 2 and whose third is answered 200 issues exactly three
\* requests, has slept at least 2000 ms when it issues the second and the
\* third, stores the third response in the cache and returns it.
C3_RetryAfterScenario ==
  [][ \A p \in Slots :
        /\ (Issues(p) /\ calls[p].hist \in {"R", "RR"}) => calls[p].slept >= 2000
        /\ (calls[p].hist \in {"", "R"} /\ calls'[p].hist \in {"R", "RR"}
            /\ calls'[p].hist # calls[p].hist) => calls'[p].pc = "backoff"
        /\ (Settles(p) /\ calls[p].hist = "RR" /\ calls'[p].outcome = "fresh") =>
             /\ calls'[p].nreq = 3
             /\ calls'[p].pc = "done"
             /\ cache'[cacheKey(calls[p].req)] = [data |-> calls'[p].data, age |-> 0]
             /\ calls'[p].data # 0 ]_vars

\* A call that found no entry has had 429 / retry-after 2 twice, then 200.
C3_Witness ==
  \E p \in Slots :
    /\ calls[p].pc = "done" /\ calls[p].hist = "RR" /\ calls[p].outcome = "fresh"
    /\ calls[p].cached = << >> /\ calls[p].nreq = 3

\* C4: any two network requests are issued at least minDelayMs apart, calls
\* started together by Promise.all included.  (Stated as the claim states it;
\* the calls of the Promise.all break it.)
C4_SpacingEveryInterleaving ==
  [][ reqCount' = reqCount + 1 => sinceLastRequest >= minDelayMs' ]_vars

\* C5: after a failed attempt the call goes on to another attempt exactly when
\* the status is 401/403 and the client is privileged, or the failure is
\* transient (429, 5xx, ECONNRESET / ETIMEDOUT / EAI_AGAIN / ENOTFOUND) and
\* attempt < maxRetries; otherwise the call ends in that step and the tier
\* state stays as it is.
C5_IsTransient(raw) ==
  \/ raw.kind = "http" /\ (raw.status = 429 \/ raw.status >= 500)
  \/ raw.kind = "error"
     /\ raw.code \in {"ECONNRESET", "ETIMEDOUT", "EAI_AGAIN", "ENOTFOUND"}
C5_IsFailure(raw) == ~(raw.kind = "http" /\ raw.status = 200 /\ raw.json)
C5_RetryExactlyWhen ==
  [][ \A p \in Slots :
        (Settles(p) \/ calls'[p].attempt # calls[p].attempt) =>
          \A raw \in Transport, rnd \in RandNums :
            (C5_IsFailure(raw) /\ makeAPICall_settle(p, raw, rnd)) =>
              IF \/ IsAuthStatus(raw) /\ isPro
                 \/ C5_IsTransient(raw) /\ calls[p].attempt < maxRetries
                THEN /\ calls'[p].pc \in {"rl_sleep", "inflight", "backoff"}
                     /\ calls'[p].attempt
                          + (IF calls'[p].pc = "backoff" THEN 1 ELSE 0)
                          = calls[p].attempt + 1
                ELSE /\ calls'[p].pc = "done"
                     /\ calls'[p].outcome \in {"stale", "throw"}
                     /\ calls'[p].nreq = calls[p].nreq
                     /\ tierVars' = tierVars ]_vars

\* A transient failure on the last attempt has ended a call.
C5_Witness ==
  \E p \in Slots :
    /\ Thrown(p) /\ calls[p].error.statusCode = 429
    /\ calls[p].attempt = maxRetries

\* C6: a call issues at most maxRetries + 1 requests, one per attempt: at most
\* 4 while the client is privileged and at most 7 in any case, the call
\* during which the downgrade raises maxRetries from 3 to 6 included.
C6_RequestsPerCall ==
  \A p \in Slots :
    /\ calls[p].nreq <= maxRetries + 1
    /\ calls[p].nreq <= 7
    /\ isPro => calls[p].nreq <= 4
    /\ calls[p].pc = "inflight" => calls[p].nreq = calls[p].attempt + 1
    /\ calls[p].pc \in {"backoff", "done"} => calls[p].nreq <= calls[p].attempt + 1

\* A call that was downgraded on the way has issued its seventh request.
C6_Witness ==
  \E p \in Slots : calls[p].nreq = 7 /\ freeModeForced /\ calls[p].pc = "inflight"

\* C7: a call that finds an entry for its key younger than 5 minutes returns
\* that entry's payload at once: no request, no sleep, and lastRequestTime,
\* the cache and the tier state stay as they are.
C7_FreshHitTouchesNothing ==
  [][ \A p \in Slots :
        ( /\ calls[p].pc = "start" /\ calls'[p].pc # "start"
          /\ cacheKey(calls[p].req) \in DOMAIN cache
          /\ cache[cacheKey(calls[p].req)].age < 5 * 60 * 1000 ) =>
            /\ calls'[p].pc = "done"
            /\ calls'[p].outcome = "hit"
            /\ calls'[p].data = cache[cacheKey(calls[p].req)].data
            /\ calls'[p].nreq = 0
            /\ UNCHANGED <<sinceLastRequest, cache, tierVars, reqCount>> ]_vars

\* A call has been served from the cache without a request.
C7_Witness ==
  \E p \in Slots : calls[p].pc = "done" /\ calls[p].outcome = "hit"
                   /\ calls[p].nreq = 0 /\ calls[p].data # 0

\* C8: only a successful fetch changes the cache, and it sets exactly the
\* entry of its call's key to the new payload, stored now; in every other
\* step each entry keeps its payload and its timestamp (it only ages), so no
\* entry is evicted and a stale entry served as fallback is not refreshed.
Succeeds(p) == Settles(p) /\ calls'[p].outcome = "fresh"
C8_OnlySuccessWritesCache ==
  [][ IF \E p \in Slots : Succeeds(p)
        THEN \E p \in Slots :
               /\ Succeeds(p)
               /\ DOMAIN cache' = DOMAIN cache \cup {cacheKey(calls[p].req)}
               /\ cache'[cacheKey(calls[p].req)] = [data |-> calls'[p].data, age |-> 0]
               /\ \A k \in DOMAIN cache \ {cacheKey(calls[p].req)} : cache'[k] = cache[k]
        ELSE /\ DOMAIN cache' = DOMAIN cache
             /\ \A k \in DOMAIN cache :
                  /\ cache'[k].data = cache[k].data
                  /\ cache'[k].age >= cache[k].age
             /\ cache' # cache => \E d \in Moments : advanceTime(d) ]_vars

\* A stale entry was served as fallback and is still there, still stale,
\* beside the entry of another key.
C8_Witness ==
  \E p \in Slots :
    /\ calls[p].pc = "done" /\ calls[p].outcome = "stale"
    /\ cacheKey(calls[p].req) \in DOMAIN cache
    /\ cache[cacheKey(calls[p].req)].age >= CACHE_DURATION
    /\ Cardinality(DOMAIN cache) >= 2

\* C9: a call whose request is answered 401/403 while the client is
\* privileged downgrades the client in that step, consumes one attempt, does
\* not back off, and waits only for the public spacing of 1600 ms since the
\* last request before its next request, which goes to the public base URL
\* without the API key; the call goes on with the public-tier attempts.
C9_DowngradeThenPublicRetry ==
  [][ \A p \in Slots :
        /\ (\E raw \in Transport :
              IsAuthStatus(raw) /\ isPro /\ makeAPICall_settle(p, raw, 0)) =>
             /\ ~isPro' /\ API_KEY' = NoKey /\ BASE_URL' = FREE_URL
             /\ calls'[p].attempt = calls[p].attempt + 1
             /\ calls'[p].delay = 0
             /\ IF sinceLastRequest >= 1600
                  THEN calls'[p].pc = "inflight"
                  ELSE /\ calls'[p].pc = "rl_sleep"
                       /\ calls'[p].sleepLeft = 1600 - sinceLastRequest
        /\ (Issues(p) /\ freeModeForced') =>
             /\ calls'[p].url[1] = FREE_URL
             /\ calls'[p].keyHdr = NoKey
        /\ (Issues(p) /\ calls[p].pc = "rl_sleep" /\ calls[p].hist = "other"
            /\ calls[p].delay = 0 /\ freeModeForced) => calls[p].slept <= 1600 ]_vars

\* The retry of a downgraded call is on its way to the public URL.
C9_Witness ==
  \E p \in Slots :
    /\ calls[p].pc = "inflight" /\ calls[p].attempt >= 1 /\ freeModeForced
    /\ calls[p].url = buildUrl(FREE_URL, calls[p].req) /\ calls[p].keyHdr = NoKey
    /\ downgrades = 1

\* C10: the tier parameters agree with the tier: privileged means the key is
\* set, the pro URL and (300, 3, 500); Public means no key, the public URL
\* and (1600, 6, 2000); freeModeForced holds exactly after a downgrade.
C10_TierConsistent ==
  /\ isPro =>
       /\ API_KEY # NoKey /\ BASE_URL = PRO_URL
       /\ <<minDelayMs, maxRetries, backoffBaseMs>> = <<300, 3, 500>>
  /\ ~isPro =>
       /\ API_KEY = NoKey /\ BASE_URL = FREE_URL
       /\ <<minDelayMs, maxRetries, backoffBaseMs>> = <<1600, 6, 2000>>
  /\ freeModeForced <=> downgrades >= 1
  /\ freeModeForced => ~isPro

\* The client has been downgraded and requests have gone out since.
C10_Witness == freeModeForced /\ ~isPro /\ maxRetries = 6 /\ reqCount >= 2

\* C11: a request that hits the 20 s socket timeout is handled as a 5xx
\* response is: while attempt < maxRetries the call backs off for
\* computeBackoffDelay(attempt) and retries.  (Stated as the claim states it;
\* the error of the timeout carries neither a status nor a code, and the call
\* ends.)
C11_TimeoutIsTransient ==
  [][ \A p \in Slots, rnd \in RandNums :
        ( /\ calls[p].waited = SOCKET_TIMEOUT
          /\ calls[p].attempt < maxRetries
          /\ makeAPICall_settle(p, Silence, rnd) ) =>
            /\ calls'[p].pc = "backoff"
            /\ calls'[p].delay =
                 computeBackoffDelay(calls[p].attempt, "", backoffBaseMs, rnd) ]_vars

\* C12: a 200 response whose body does not parse ends the call in that step
\* with no further request; the parse error is raised when the call found no
\* cache entry for its key, and the entry's payload is returned when it found
\* one.
BadJson == Http(200, "", FALSE)
C12_ParseErrorEndsCall ==
  [][ \A p \in Slots :
        makeAPICall_settle(p, BadJson, 0) =>
          /\ calls'[p].pc = "done"
          /\ calls'[p].nreq = calls[p].nreq
          /\ reqCount' = reqCount
          /\ IF calls[p].cached = << >>
               THEN /\ calls'[p].outcome = "throw"
                    /\ calls'[p].error.message = "JSON parse error"
               ELSE /\ calls'[p].outcome = "stale"
                    /\ calls'[p].data = calls[p].cached[1].data ]_vars

\* C12 as stated: the parse error is raised to the caller in every case.
C12_ParseErrorRaised ==
  [][ \A p \in Slots :
        makeAPICall_settle(p, BadJson, 0) =>
          /\ calls'[p].pc = "done"
          /\ calls'[p].nreq = calls[p].nreq
          /\ calls'[p].outcome = "throw"
          /\ calls'[p].error.message = "JSON parse error" ]_vars

\* A call with attempts left has ended on a parse error after one request.
C12_Witness ==
  \E p \in Slots :
    /\ Thrown(p) /\ calls[p].error.message = "JSON parse error"
    /\ calls[p].nreq = 1 /\ calls[p].attempt = 0

\* C13: while the client is Public at most one request is in flight, the
\* states after a downgrade during the Promise.all of fetchHistoricalTotal3
\* included.  (Stated as the claim states it; the calls of the Promise.all go
\* on side by side after the downgrade.)
C13_PublicIsSequential ==
  ~isPro => Cardinality({p \in Slots : InFlight(p)}) <= 1

\* The delay computed for a failed attempt, and the cases of its argument:
\* a retry-after that parses to a positive number, or none that is usable.
Computed == fn.op = "computeBackoffDelay" /\ fn.pc = "return"
C14_Seconds == ("1" :> 1) @@ ("2" :> 2) @@ ("60" :> 60)
UsableRetryAfter == fn.raw.kind = "http" /\ fn.raw.status = 429
                    /\ fn.raw.retryAfter \in DOMAIN C14_Seconds

\* C14: for a 429 whose retry-after parses to a positive number N the delay
\* is exactly N * 1000 ms, whatever the attempt, the tier and the random
\* draw, and also beyond 30000 ms.
C14_RetryAfterVerbatim ==
  (Computed /\ UsableRetryAfter) =>
    fn.delay = C14_Seconds[fn.raw.retryAfter] * 1000

\* A retry-after of 60 s has given a delay of 60000 ms on the last retry of
\* the public tier.
C14_Witness ==
  /\ Computed /\ fn.raw = Http(429, "60", FALSE) /\ fn.delay = 60000
  /\ ~isPro /\ fn.attempt = 5 /\ fn.rnd # 0

\* C15: without a usable retry-after the delay for attempt a is
\* min(30000, base + jitter) with base = backoffBaseMs * 2^a of the tier in
\* force: at most 30000 and at least min(base, 30000).
C15_BackoffBounds ==
  (Computed /\ ~UsableRetryAfter) =>
    LET base == (IF isPro THEN 500 ELSE 2000) * (2 ^ fn.attempt)
    IN /\ fn.delay <= 30000
       /\ fn.delay >= (IF base < 30000 THEN base ELSE 30000)
       /\ \E jitter \in 0 .. 500 :
            fn.delay = (IF base + jitter < 30000 THEN base + jitter ELSE 30000)

\* The cap has cut a delay of 64000 ms and more down to 30000 ms.
C15_Witness ==
  /\ Computed /\ ~UsableRetryAfter
  /\ fn.attempt = 5 /\ fn.base = 64000 /\ fn.delay = 30000

\* C16: the jitter added to base = backoffBaseMs * 2^attempt is at least 0,
\* below 500 ms, and below 10% of base or below 100 ms, whichever is larger.
C16_JitterWindow ==
  (Computed /\ ~UsableRetryAfter) =>
    LET jitter == fn.jittered - fn.base
    IN /\ fn.base = (IF isPro THEN 500 ELSE 2000) * (2 ^ fn.attempt)
       /\ jitter >= 0
       /\ jitter < 500
       /\ jitter * 10 < fn.base \/ jitter < 100

\* C16 as stated: the jitter never exceeds 10% of base nor 500 ms.
C16_JitterWithinTenPercent ==
  (Computed /\ ~UsableRetryAfter) =>
    LET jitter == fn.jittered - fn.base
    IN /\ jitter >= 0
       /\ jitter <= 500
       /\ jitter * 10 <= fn.base

\* The first privileged retry (base 500) has drawn a jitter above 50 ms.
C16_Witness ==
  /\ Computed /\ ~UsableRetryAfter
  /\ isPro /\ fn.attempt = 0 /\ fn.base = 500
  /\ (fn.jittered - fn.base) * 10 > fn.base

\* C17: the transition from Privileged to Public is triggered solely by an
\* authorization failure, and the first one suffices: every 401/403 received
\* while privileged downgrades the client in that step, with no downgrade
\* before it, and the client leaves the privileged tier in no other step.
C17_FirstAuthFailureDowngrades ==
  [][ /\ \A p \in Slots, raw \in Transport :
           (IsAuthStatus(raw) /\ isPro /\ makeAPICall_settle(p, raw, 0)) =>
             /\ ~isPro' /\ freeModeForced'
             /\ downgrades = 0 /\ downgrades' = 1
      /\ (isPro /\ ~isPro') =>
           \E p \in Slots, raw \in Transport :
             IsAuthStatus(raw) /\ makeAPICall_settle(p, raw, 0) ]_vars

\* C17 as stated: a single 401/403 does not downgrade.  While one request has
\* been issued in all there has been at most one authorization failure, and
\* the client stays privileged.
C17_SingleFailureKeepsTier ==
  [][ (isPro /\ reqCount = 1) => isPro' ]_vars

\* The client was downgraded by the answer to the only request ever issued.
C17_Witness ==
  /\ freeModeForced /\ ~isPro /\ downgrades = 1 /\ reqCount = 1
  /\ \E p \in Slots : calls[p].attempt = 1 /\ calls[p].nreq = 1

\* calculateEMA has returned.
EmaReturned == fn.op = "calculateEMA" /\ fn.pc = "return"

\* C18: for a price series shorter than period the returned series has no
\* non-null entry.  (Stated as the claim states it; the entry at period - 1
\* is the sum of the prices there are, divided by period.)
C18_ShortSeriesAllNull ==
  (EmaReturned /\ Len(fn.prices) < fn.period) =>
    \A i \in DOMAIN fn.ema : fn.ema[i].null

\* C19: for a price series of at least period prices the returned series is
\* as long as the input, null at the indices 0 .. period - 2, the simple
\* average of the first period prices at index period - 1, and a number at
\* every later index.
C19_AlignedWithInput ==
  (EmaReturned /\ Len(fn.prices) >= fn.period) =>
    /\ Len(fn.ema) = Len(fn.prices)
    /\ \A i \in 1 .. fn.period - 1 : fn.ema[i].null
    /\ ~fn.ema[fn.period].null
    /\ fn.ema[fn.period].n * fn.period
         = Sum(SubSeq(fn.prices, 1, fn.period)) * fn.ema[fn.period].d
    /\ \A i \in fn.period + 1 .. Len(fn.prices) :
         ~fn.ema[i].null /\ fn.ema[i].d > 0

\* A series with prices beyond the first period of 2, not all alike.
C19_Witness ==
  /\ EmaReturned /\ fn.period = 2 /\ fn.prices = <<1, 2, 5, 1>>
  /\ Len(fn.ema) = 4 /\ ~fn.ema[4].null

\* The flips of a scan: the indices j in 55 .. lastIdx where EMA21 - EMA55 is
\* negative at j - 1 and positive at j, or positive at j - 1 and negative at j.
C20_Diff(j) == diff(fn.ema21[j], fn.ema55[j])
C20_Flips ==
  {j \in 55 .. fn.lastIdx :
     \/ C20_Diff(j - 1) < 0 /\ C20_Diff(j) > 0
     \/ C20_Diff(j - 1) > 0 /\ C20_Diff(j) < 0}
C20_Last == CHOOSE j \in C20_Flips : \A i \in C20_Flips : i <= j

\* C20: the scan ends with the flip of greatest index, bullish if the
\* difference is positive there and bearish if negative, whichever flips came
\* before it; that flip is the one reported (if at most 3 bars old), and
\* nothing is reported without a flip.
C20_LastFlipWins ==
  (fn.op = "getEMACrossovers" /\ fn.pc = "done") =>
    IF C20_Flips = {}
      THEN fn.lastCrossoverIdx = 0 - 1 /\ fn.signal = "none"
      ELSE /\ fn.lastCrossoverIdx = C20_Last
           /\ fn.lastCrossoverType =
                (IF C20_Diff(C20_Last) > 0 THEN "bullish" ELSE "bearish")
           /\ fn.signal = (IF fn.lastIdx - C20_Last <= 3
                             THEN fn.lastCrossoverType ELSE "none")
           /\ fn.signal # "none" => fn.daysAgo = fn.lastIdx - C20_Last

\* Two flips inside the lookback window: a bullish one, then the bearish one
\* that is reported.
C20_Witness ==
  /\ fn.op = "getEMACrossovers" /\ fn.pc = "done"
  /\ {fn.lastIdx - 1, fn.lastIdx} \subseteq C20_Flips
  /\ C20_Diff(fn.lastIdx - 1) > 0
  /\ fn.signal = "bearish" /\ fn.daysAgo = 0

\* The scan has ended and its result entry is made.
Reported == fn.op = "getEMACrossovers" /\ fn.pc = "done"
\* The result for the same series one sample earlier.
C21_Before ==
  crossoverRun([fn EXCEPT !.pc = "scan", !.lastIdx = fn.lastIdx - 1, !.j = 55,
                          !.lastCrossoverIdx = 0 - 1,
                          !.lastCrossoverType = "none",
                          !.signal = "none", !.daysAgo = 0 - 1])

\* C21: the signal is bullish or bearish only if the last flip c is at most
\* 3 samples before the last one, and then daysAgo = lastIdx - c; otherwise
\* the signal is none and daysAgo is null.  A further sample that brings no
\* flip leaves c where it was and daysAgo one higher, and the signal is none
\* once the flip is more than 3 samples old and stays none.
C21_SignalOnlyInWindow ==
  Reported =>
    LET c == fn.lastCrossoverIdx
        inWindow == c # 0 - 1 /\ fn.lastIdx - c <= 3
    IN /\ inWindow => /\ fn.signal = fn.lastCrossoverType
                      /\ fn.signal \in {"bullish", "bearish"}
                      /\ fn.daysAgo = fn.lastIdx - c
       /\ ~inWindow => fn.signal = "none" /\ fn.daysAgo = 0 - 1
       /\ (fn.lastIdx > 55 /\ c # fn.lastIdx) =>
            /\ C21_Before.lastCrossoverIdx = c
            /\ C21_Before.signal = "none" => fn.signal = "none"
            /\ C21_Before.daysAgo = 3 => fn.signal = "none"
            /\ fn.signal # "none" =>
                 /\ fn.signal = C21_Before.signal
                 /\ fn.daysAgo = C21_Before.daysAgo + 1

\* A flip at index 55 is four samples old and no longer reported.
C21_Witness ==
  /\ Reported /\ fn.lastCrossoverIdx = 55 /\ fn.lastIdx = 59
  /\ fn.signal = "none" /\ C21_Before.signal # "none"

\* One of the two loops has ended.
LoopDone(op) == fn.op = op /\ fn.pc = "done" /\ fn.outcome # "pending"
Entries == {fn.results[k] : k \in 1 .. Len(fn.results)}

\* C22: in getEMACrossovers a coin with an id and a fetched history gets a
\* result entry exactly when the history has 55 or more price samples.
C22_EntryIffAtLeast55 ==
  LoopDone("getEMACrossovers") =>
    \A k \in 1 .. Len(fn.coins) :
      (fn.coins[k].id # "" /\ fn.coins[k].fetch = "prices") =>
        (k \in Entries <=> fn.coins[k].len >= 55)

\* C28: a coin whose fetch rejects or whose history is malformed is the only
\* one skipped: the method resolves and its results hold an entry for every
\* coin that would get one on its own, and for no other.
Qualifies(op, coin, total3Len) ==
  /\ ~passedOver(op, coin)
  /\ coin.fetch # "throws"
  /\ "push" = IF op = "getCorrelationAnalysis"
                THEN corrBody(coin, total3Len) ELSE emaBody(coin)
Fails(op, coin, total3Len) ==
  /\ ~passedOver(op, coin)
  /\ \/ coin.fetch = "throws"
     \/ "throw" = IF op = "getCorrelationAnalysis"
                    THEN corrBody(coin, total3Len) ELSE emaBody(coin)
C28_OneBadCoinSkipsOnlyItself ==
  (InLoop /\ fn.pc = "done") =>
    /\ fn.outcome = "resolved"
    /\ Entries = {k \in 1 .. Len(fn.coins) :
                    Qualifies(fn.op, fn.coins[k], fn.total3Len)}
    /\ Len(fn.results) = Cardinality(Entries)

\* A loop ended with a failed coin before a coin that got its entry.
C28_Witness ==
  /\ InLoop /\ fn.pc = "done" /\ fn.op = "getCorrelationAnalysis"
  /\ Len(fn.coins) = 2
  /\ Fails(fn.op, fn.coins[1], fn.total3Len)
  /\ fn.results = <<2>>

\* A statistics function has returned.
StatsReturned(op) == fn.op = op /\ fn.pc = "return"
\* All the samples of a series are the same number.
ZeroVariance(s) == \A i, j \in 1 .. Len(s) : s[i] = s[j]
One == roundTo(1, 0)

\* C23: calculateCorrelationAndBeta returns correlation 0 and beta 0, and no
\* NaN, whenever one of the two series has zero variance, the two differ in
\* length or there are fewer than 2 samples.
C23_ZeroVarianceGivesZero ==
  StatsReturned("calculateCorrelationAndBeta") =>
    ((\/ Len(fn.prices1) # Len(fn.prices2)
      \/ Len(fn.prices1) < 2
      \/ ZeroVariance(fn.prices1)
      \/ ZeroVariance(fn.prices2))
       => fn.result = [correlation |-> Zero, beta |-> Zero])

\* C24: for a series s of 2 or more samples that are not all the same,
\* calculateCorrelationAndBeta(s, s) gives correlation 1 and beta 1.
C24_SelfCorrelationIsOne ==
  (/\ StatsReturned("calculateCorrelationAndBeta")
   /\ fn.prices1 = fn.prices2
   /\ Len(fn.prices1) >= 2
   /\ ~ZeroVariance(fn.prices1))
    => fn.result = [correlation |-> One, beta |-> One]

C24_Witness ==
  /\ StatsReturned("calculateCorrelationAndBeta")
  /\ fn.prices1 = fn.prices2
  /\ Len(fn.prices1) = 3
  /\ ~ZeroVariance(fn.prices1)
  /\ fn.result.correlation = One

\* The indices at which the market return is below zero, in order.
RECURSIVE downIndices(_, _)
downIndices(marketReturns, i) ==
  IF i > Len(marketReturns) THEN << >>
  ELSE (IF marketReturns[i].m < 0 THEN <<i>> ELSE << >>)
       \o downIndices(marketReturns, i + 1)

\* C25: calculateDownsideBeta is sum(asset * market) / sum(market^2) over the
\* indices with a market return below zero, it is the same for every asset
\* series that agrees at those indices, and it is 0 when there is none.
C25_OnlyDownsideSamples ==
  StatsReturned("calculateDownsideBeta") =>
    LET r == fn.returns
        mk == fn.marketReturns
        down == downIndices(mk, 1)
        sp == fsumFrom(Zero, [k \in 1 .. Len(down) |->
                                fmul(r[down[k]], mk[down[k]])])
        sq == fsumFrom(Zero, [k \in 1 .. Len(down) |->
                                fmul(mk[down[k]], mk[down[k]])])
    IN /\ down = << >> => fn.result = Zero
       /\ down # << >> => fn.result = fdiv(sp, sq)
       /\ \A other \in ReturnSeqs :
            (/\ Len(other) = Len(r)
             /\ \A k \in 1 .. Len(down) : other[down[k]] = r[down[k]])
              => calculateDownsideBeta(other, mk) = fn.result

\* A result that is not 0, from a market series with a day that is not down
\* on which the asset moved.
C25_Witness ==
  /\ StatsReturned("calculateDownsideBeta")
  /\ fn.result # Zero
  /\ \E i \in 1 .. Len(fn.marketReturns) :
       fn.marketReturns[i].m > 0 /\ fn.returns[i] # Zero
  /\ \E i \in 1 .. Len(fn.marketReturns) : fn.marketReturns[i].m < 0

\* C26: the statistics are computed on the last minLen = min(lengthA,
\* lengthB) entries of the asset's and of the reference's return series, the
\* k-th from the end of the one paired with the k-th from the end of the
\* other, and a coin with minLen < 2 is skipped.
C26_TailAligned ==
  (fn.op = "getCorrelationAnalysis.coin" /\ fn.pc # "returns") =>
    LET lenA == Len(fn.returns)
        lenB == Len(fn.total3Returns)
        minLen == IF lenA < lenB THEN lenA ELSE lenB
    IN /\ fn.pc = "continue" <=> minLen < 2
       /\ fn.pc = "pushed" =>
            /\ Len(fn.asset) = minLen /\ Len(fn.reference) = minLen
            /\ \A k \in 0 .. minLen - 1 :
                 /\ fn.asset[minLen - k] = fn.returns[lenA - k]
                 /\ fn.reference[minLen - k] = fn.total3Returns[lenB - k]
            /\ fn.correlation =
                 calculateCorrelationAndBeta(fn.asset, fn.reference).correlation
            /\ fn.downsideBeta = calculateDownsideBeta(fn.asset, fn.reference)

\* The asset series is the longer one and its first entries are not its last.
C26_Witness ==
  /\ fn.op = "getCorrelationAnalysis.coin" /\ fn.pc = "pushed"
  /\ Len(fn.returns) > Len(fn.total3Returns)
  /\ fn.asset # SubSeq(fn.returns, 1, fn.minLen)

\* fetchHistoricalTotal3 is running.
InTotal3 == caller.pc \in {"t3_all", "t3_seq", "t3_fallback"}

\* C27: fetchHistoricalTotal3 never fails.  Its composite computation ends
\* either with the composite series, no call having thrown, or with one
\* /global snapshot call; that call ends with the flat series of length days,
\* or with the zero series of length days if it threw; either way the caller
\* is back in getCorrelationAnalysis with a series.
C27_Total3AlwaysReturns ==
  [][(InTotal3 /\ caller'.pc # caller.pc) =>
       \/ /\ caller.pc \in {"t3_all", "t3_seq"}
          /\ caller'.pc = "ready"
          /\ caller'.series.kind = "composite"
          /\ caller'.series.length >= 2
          /\ \A p \in Slots :
               calls[p].role \in {"all", "t3seq"} => ~Thrown(p)
       \/ /\ caller.pc \in {"t3_all", "t3_seq"}
          /\ caller'.pc = "t3_fallback"
          /\ calls'[caller'.awaited].role = "fallback"
          /\ calls'[caller'.awaited].req = ReqGlobal
          /\ Cardinality({p \in Slots : calls'[p].role = "fallback"}) = 1
       \/ /\ caller.pc = "t3_fallback"
          /\ caller'.pc = "ready"
          /\ caller'.series.length = DAYS
          /\ caller'.series.kind =
               IF Thrown(caller.awaited) THEN "zeros" ELSE "flat"]_vars

\* The zero series has been returned, after a composite and a snapshot that
\* both failed.
C27_Witness ==
  /\ caller.pc = "ready"
  /\ caller.series = Series("zeros", DAYS)

\* The errors of the fetch stages.
FetchErrors ==
  {"/coins/markets failed", "No coin data available"}
  \cup {FetchStages[k] \o " failed" : k \in 1 .. 4}

\* C29: generateDailyData never rejects.  If a fetch stage throws, it
\* resolves to { success: false, error } with the error of that stage and no
\* file is written; success: true is returned only when the dated file and
\* latest.json have both been written.
C29_NeverRejects ==
  fn.op = "generateDailyData" =>
    /\ fn.result.kind \in {"pending", "resolved"}
    /\ fn.pc = "done" <=> fn.result.kind = "resolved"
    /\ fn.result.success => fn.files = {"dated", "latest"}
    /\ (fn.pc = "done" /\ fn.result.error \in FetchErrors) =>
         ~fn.result.success /\ fn.files = {}
    /\ (fn.pc = "done" /\ ~fn.result.success) => fn.result.error # ""
    /\ fn.files # {} => fn.pc \in {"writeLatest", "done"}

\* The first page failed (there is no cache in a new process): the run ends
\* with success false and no file.
C29_Witness ==
  /\ fn.op = "generateDailyData" /\ fn.pc = "done"
  /\ fn.result = [kind |-> "resolved", success |-> FALSE,
                  error |-> "/coins/markets failed"]
  /\ fn.page = 1 /\ fn.files = {}

\* C30: every call of the Promise.all whose request went out with the API key
\* and is answered 401/403 is retried, also when another call has downgraded
\* the client in the meantime: it does not end, and goes on with its next
\* attempt.
C30_EveryAuthFailureRetried ==
  [][ \A p \in Slots, raw \in Transport :
        (/\ IsAuthStatus(raw)
         /\ calls[p].role = "all"
         /\ calls[p].keyHdr = THE_KEY
         /\ makeAPICall_settle(p, raw, 0)) =>
          /\ calls'[p].pc # "done"
          /\ calls'[p].attempt = calls[p].attempt + 1 ]_vars

\* A call is between its entry and its end.
Running(p) == calls[p].pc \notin {"idle", "done"}
\* No call has left the retry loop through the loop condition.
C31_LoopNeverRunsOut ==
  \A p \in Slots :
    /\ calls[p].outcome # "undefined"
    /\ Running(p) => calls[p].attempt <= maxRetries

\* C31: every makeAPICall ends, as long as the run may issue requests at all
\* (again and again no call is running), and it ends with a payload (fresh,
\* cached or stale) or with a throw: the retry loop is never left through its
\* loop condition, whatever the downgrade does to maxRetries and whatever
\* other calls are running.
C31_Terminates ==
  /\ [](C31_LoopNeverRunsOut)
  /\ [](\A p \in Slots :
          calls[p].pc = "done" =>
            calls[p].outcome \in {"fresh", "hit", "stale", "throw"})
  /\ []<>(reqCount >= Budget \/ \A p \in Slots : ~Running(p))

\* A call that was downgraded on the way has ended with a throw after the
\* last of the public tier's attempts.
C31_Witness ==
  \E p \in Slots :
    /\ Thrown(p) /\ freeModeForced
    /\ calls[p].attempt = FREE_MAX_RETRIES /\ calls[p].nreq = 7

\* C32: when each call is awaited before the next starts, a request (a first
\* attempt or a retry) leaves no sooner than the spacing configured at that
\* moment after the request before it; once the client is Public that is
\* FREE_MIN_DELAY, for the first request after the downgrade too.
C32_SequentialSpacing ==
  [][ \A p \in Slots :
        Issues(p) =>
          /\ sinceLastRequest >= minDelayMs'
          /\ ~isPro' => sinceLastRequest >= FREE_MIN_DELAY ]_vars

\* The retry that follows the downgrade has just left, the public spacing
\* after the request that was refused.
C32_Witness ==
  \E p \in Slots :
    /\ calls[p].role = "seq" /\ calls[p].pc = "inflight"
    /\ calls[p].nreq = 2 /\ calls[p].attempt = 1 /\ calls[p].waited = 0
    /\ freeModeForced /\ downgrades = 1 /\ sinceLastRequest = 0
    /\ calls[p].url[1] = FREE_URL

\* C33: in every interleaving a request that is under way goes to the pro
\* base URL with the API key in its header or to the public base URL without
\* it, never any other pairing; a request issued after the downgrade carries
\* no key.
C33_UrlAndKeyPaired ==
  /\ [](\A p \in Slots :
          InFlight(p) =>
            \/ calls[p].url[1] = PRO_URL /\ calls[p].keyHdr = THE_KEY
            \/ calls[p].url[1] = FREE_URL /\ calls[p].keyHdr = NoKey)
  /\ [][ \A p \in Slots :
           (Issues(p) /\ (freeModeForced \/ freeModeForced')) =>
             calls'[p].keyHdr = NoKey /\ calls'[p].url[1] = FREE_URL ]_vars

\* After the downgrade a request sent before it is still out, to the pro URL
\* with the key, next to one sent after it, to the public URL without.
C33_Witness ==
  \E p, q \in Slots :
    /\ freeModeForced /\ InFlight(p) /\ InFlight(q)
    /\ calls[p].url[1] = PRO_URL /\ calls[p].keyHdr = THE_KEY
    /\ calls[q].url[1] = FREE_URL /\ calls[q].keyHdr = NoKey

\* The key the claim describes: endpoint and query string, nothing else.
C34_Key(r) == <<r.endpoint, "|", r.queryString>>
\* Call p runs from its entry to its first suspension in this step.
Begins(p) == calls[p].pc = "start" /\ calls'[p].pc # "start"

\* C34: the cache is keyed by endpoint and query string alone, so the tier
\* and the base URL play no part in a lookup: a call that finds an entry of
\* its endpoint and query younger than CACHE_DURATION returns it without a
\* request, and a call that had found an entry (of any age) returns it when
\* its attempts end in failure, on either side of a downgrade.
C34_CacheIgnoresTier ==
  /\ [](DOMAIN cache \subseteq {C34_Key(r) : r \in Requests})
  /\ [][ \A p \in Slots :
           /\ Begins(p) =>
                LET k == C34_Key(calls[p].req)
                IN /\ calls'[p].cached =
                        (IF k \in DOMAIN cache THEN <<cache[k]>> ELSE << >>)
                   /\ (k \in DOMAIN cache /\ cache[k].age < CACHE_DURATION) =>
                        /\ calls'[p].pc = "done" /\ calls'[p].outcome = "hit"
                        /\ calls'[p].data = cache[k].data
                        /\ reqCount' = reqCount
           /\ (Settles(p) /\ calls'[p].pc = "done"
               /\ calls'[p].outcome # "fresh" /\ calls[p].cached # << >>) =>
                /\ calls'[p].outcome = "stale"
                /\ calls'[p].data = calls[p].cached[1].data ]_vars

\* The snapshot call of fetchHistoricalTotal3's catch block, started after
\* the downgrade, has been answered from the entry that the one earlier
\* sequential call stored: that call ran before the Promise.all, hence while
\* the client was privileged, and the calls of the Promise.all have issued
\* the other requests (the third of them was a cache hit itself).
C34_Witness ==
  /\ freeModeForced /\ caller.pc = "t3_fallback" /\ caller.seqCalls = 1
  /\ calls[1].role = "fallback" /\ calls[1].pc = "done"
  /\ calls[1].outcome = "hit" /\ calls[1].nreq = 0
  /\ calls[2].role = "straggler" /\ calls[2].nreq = 2
  /\ calls[3].pc = "idle"
  /\ reqCount = 4
  /\ DOMAIN cache = {C34_Key(ReqGlobal)}

\* The pass of the scan for index fn.j is taken in this step, and it records
\* a crossover at that index.
ScansIndex == fn.op = "getEMACrossovers" /\ fn.pc = "scan" /\ fn'.j = fn.j + 1
RecordsCrossover ==
  fn'.lastCrossoverIdx = fn.j \/ fn'.lastCrossoverType # fn.lastCrossoverType

\* C35: the pass for index j records a crossover only if EMA21 - EMA55 is
\* strictly negative at j - 1 and strictly positive at j (bullish) or
\* strictly positive at j - 1 and strictly negative at j (bearish); if the
\* difference is exactly zero at j or at j - 1, the pass records nothing, so
\* a change of sign through an exact zero leaves the scan without a crossover.
C35_ZeroIsNoCrossover ==
  /\ [][ ScansIndex =>
           /\ RecordsCrossover =>
                \/ /\ C20_Diff(fn.j - 1) < 0 /\ C20_Diff(fn.j) > 0
                   /\ fn'.lastCrossoverType = "bullish"
                \/ /\ C20_Diff(fn.j - 1) > 0 /\ C20_Diff(fn.j) < 0
                   /\ fn'.lastCrossoverType = "bearish"
           /\ (C20_Diff(fn.j) = 0 \/ C20_Diff(fn.j - 1) = 0) =>
                /\ fn'.lastCrossoverIdx = fn.lastCrossoverIdx
                /\ fn'.lastCrossoverType = fn.lastCrossoverType ]_vars
  /\ []((Reported /\ \A j \in 55 .. fn.lastIdx :
                       C20_Diff(j) = 0 \/ C20_Diff(j - 1) = 0) =>
          fn.lastCrossoverIdx = NoIdx /\ fn.signal = "none")

\* EMA21 has gone from below EMA55 to above it with one bar exactly on it,
\* and the scan has ended without a crossover.
C35_Witness ==
  /\ Reported /\ fn.lastIdx = 56
  /\ C20_Diff(54) < 0 /\ C20_Diff(55) = 0 /\ C20_Diff(56) > 0
  /\ fn.lastCrossoverIdx = NoIdx /\ fn.signal = "none" /\ fn.daysAgo = NoDays

\* C36: after fetchHistoricalTotal3 has returned a fallback series (the flat
\* series of the snapshot or the zero series) every reference return is 0,
\* and every coin that is analysed gets correlation 0, beta 0 and
\* downsideBeta 0, whatever its returns.  (Stated as the claim states it; a
\* snapshot whose total is not a number gives a flat series of NaN.)
C36_FallbackGivesZeros ==
  /\ (fn.op = "getCorrelationAnalysis.coin" /\ fn.pc = "returns") =>
       \A i \in 1 .. Len(fn.total3Returns) : fn.total3Returns[i] = Zero
  /\ (fn.op = "getCorrelationAnalysis.coin" /\ fn.pc = "pushed") =>
       /\ fn.correlation = Zero /\ fn.beta = Zero /\ fn.downsideBeta = Zero

====
